---- MODULE Spec2Model ----
(***************************************************************************)
(* Model of bxcommon's TransactionService                                  *)
(* (src/src/bxcommon/services/transaction_service.py): the three-way index *)
(* hash -> short ids, short id -> hash, hash -> contents, the short id     *)
(* expiration queue, block-confirmation tracking and memory-limit          *)
(* eviction.                                                               *)
(*                                                                         *)
(* bxcommon.utils.expiration_queue.ExpirationQueue and                     *)
(* bxcommon.utils.alarm_queue.AlarmQueue are collaborators of the service; *)
(* the ExpirationQueue_* and AlarmQueue_* operators follow their           *)
(* description in the specification (sections 3 and 4.1).                  *)
(***************************************************************************)
EXTENDS Integers, Sequences, FiniteSets, Bags, TLC

----------------------------------------------------------------------------
(* Bounds of the model *)

MaxLen == 3
MaxTime == 1
MaxRemovedTotal == 1

(* Configuration of the service (node.opts / blockchain network model) *)

tx_content_memory_limit == 2
final_tx_confirmations_count == 1
sid_expire_time == 1

NULL_TX_SID == 0

\* the transaction hashes (canonical cache keys) and the short ids in use; two
\* of each give shared hashes, reassigned short ids and coexisting entries (the
\* invariants below were also run with a third hash and with a third short id:
\* 3.2 and 5.0 million states)
Hashes == {"H1", "H2"}
Sids == {1, 2}
\* transaction contents: byte strings, here all-zero bytes of each length
Contents == {[i \in 1..n |-> 0] : n \in 1..MaxLen}
\* the short id lists a block can carry: every set of short ids, in ascending
\* order (removal of distinct short ids commutes, and a repeated one is a no-op)
RECURSIVE Ascending(_)
Ascending(S) ==
    IF S = {} THEN <<>>
    ELSE LET m == CHOOSE x \in S : \A y \in S : x <= y
         IN <<m>> \o Ascending(S \ {m})
Batches == {Ascending(S) : S \in SUBSET Sids}

\* Python's None in a TransactionInfo
NoHash == "None"
NoContents == <<-1>>

\* the loop counter of _memory_limit_clean_up can exceed the number of short
\* ids only when the loop spins on an empty queue
MaxRemovedCount == Cardinality(Sids) + 1

----------------------------------------------------------------------------
VARIABLES
    tx_hash_to_short_ids,       \* dict: cache key -> set of short ids
    short_id_to_tx_hash,        \* dict: short id -> cache key
    tx_hash_to_contents,        \* dict: cache key -> contents
    tx_assignment_expire_queue, \* ExpirationQueue of short ids
    short_ids_seen_in_block,    \* deque of short id lists
    total_tx_contents_size,
    total_tx_removed_by_memory_limit,
    tx_assign_alarm_scheduled,
    alarms,                     \* fire times of pending expire_old_assignments alarms
    now,                        \* time.time()
    pc,                         \* "idle", or "cleanup" inside _memory_limit_clean_up
    removed_tx_count,           \* local of _memory_limit_clean_up
    raised,                     \* a KeyError escaped _remove_transaction_by_short_id
    last,                       \* history: the last handler called and its arguments
    evicted_tx_count            \* history: hashes that eviction removed from the cache

\* the node runtime (AbstractNode) that owns the service
VARIABLES
    conns,                      \* the connection objects alive: id -> AbstractConnection
    connection_pool,            \* ConnectionPool.by_fileno: fileno -> connection id
    connection_queue,           \* deque of (ip, port) to connect to
    disconnect_queue,           \* deque of filenos to disconnect
    outbound_peers,             \* the (ip, port) of the outbound peer models
    num_retries_by_ip,          \* defaultdict(int): (ip, port) -> retries made
    alarm_queue,                \* the node's AlarmQueue: a bag of pending alarms
    schedule_pings_on_timeout,
    peer,                       \* the remote (ip, port) whose sockets this run follows
    node_last                   \* history: the last node callback and what it did

\* the components a connection and the node's feeds are built from
VARIABLES
    out_buf,                    \* an OutputBuffer: output_msgs, index, length
    out_last,                   \* history: the last call on out_buf and the bytes so far
    messages,                   \* MessageTracker.messages: deque of MessageTrackerEntry
    trackers,                   \* the MessageTracker instances: connection -> instance
    tracker_last,               \* history: the last call on the tracker
    subscribers,                \* Feed.subscribers: subscription id -> Subscriber
    feed_last                   \* history: the last publish and what it did

buffer_vars == <<out_buf, out_last>>
tracker_vars == <<messages, tracker_last, trackers>>
feed_vars == <<subscribers, feed_last>>

runtime_vars == <<conns, connection_pool, connection_queue, disconnect_queue,
                  outbound_peers, num_retries_by_ip, alarm_queue,
                  schedule_pings_on_timeout, peer, node_last>>

node_vars == <<runtime_vars, buffer_vars, tracker_vars, feed_vars>>

vars == <<tx_hash_to_short_ids, short_id_to_tx_hash, tx_hash_to_contents,
          tx_assignment_expire_queue, short_ids_seen_in_block,
          total_tx_contents_size, total_tx_removed_by_memory_limit,
          tx_assign_alarm_scheduled, alarms, now, pc, removed_tx_count,
          raised, last, evicted_tx_count, node_vars>>

----------------------------------------------------------------------------
(* dict helpers *)

DictDel(d, k) == [x \in DOMAIN d \ {k} |-> d[x]]
DictSet(d, k, v) == [x \in DOMAIN d \cup {k} |-> IF x = k THEN v ELSE d[x]]
EmptyDict == [x \in {} |-> 0]

SeqToSet(q) == {q[i] : i \in 1..Len(q)}

\* the mutable fields of the service that the removal paths touch
Cur ==
    [h2s |-> tx_hash_to_short_ids,
     s2h |-> short_id_to_tx_hash,
     h2c |-> tx_hash_to_contents,
     q |-> tx_assignment_expire_queue,
     total |-> total_tx_contents_size,
     raised |-> raised]

SetCur(s) ==
    /\ tx_hash_to_short_ids' = s.h2s
    /\ short_id_to_tx_hash' = s.s2h
    /\ tx_hash_to_contents' = s.h2c
    /\ tx_assignment_expire_queue' = s.q
    /\ total_tx_contents_size' = s.total
    /\ raised' = s.raised

----------------------------------------------------------------------------
(* ExpirationQueue: an ordered sequence of (item, enqueue time) pairs in   *)
(* which every item occurs once                                            *)

ExpirationQueue_items(q) == {q[i].item : i \in 1..Len(q)}

ExpirationQueue_add(q, item, t) ==
    Append(SelectSeq(q, LAMBDA e : e.item # item), [item |-> item, ts |-> t])

ExpirationQueue_remove(q, item) == SelectSeq(q, LAMBDA e : e.item # item)

----------------------------------------------------------------------------
(* Faulty variants of _remove_transaction_by_short_id, used to test that   *)
(* the properties below depend on it                                       *)

\* deletes the hash's short id set and contents without looking at len(short_ids)
remove_transaction_by_short_id_always_del(s, short_id) ==
    LET popped ==
            IF short_id \in DOMAIN s.s2h
            THEN LET key == s.s2h[short_id]
                     s1 == [s EXCEPT !.s2h = DictDel(@, short_id)]
                 IN IF key \in DOMAIN s1.h2s
                    THEN LET s2 == [s1 EXCEPT !.h2s = DictDel(@, key)]
                         IN IF key \in DOMAIN s2.h2c
                            THEN [s2 EXCEPT !.total = @ - Len(s2.h2c[key]),
                                            !.h2c = DictDel(@, key)]
                            ELSE s2
                    ELSE s1
            ELSE s
    IN [popped EXCEPT !.q = ExpirationQueue_remove(@, short_id)]

\* deletes the contents with the last short id but keeps the total size
remove_transaction_by_short_id_keep_size(s, short_id) ==
    LET popped ==
            IF short_id \in DOMAIN s.s2h
            THEN LET key == s.s2h[short_id]
                     s1 == [s EXCEPT !.s2h = DictDel(@, short_id)]
                 IN IF key \in DOMAIN s1.h2s
                    THEN IF Cardinality(s1.h2s[key]) = 1
                         THEN [s1 EXCEPT !.h2s = DictDel(@, key),
                                         !.h2c = DictDel(@, key)]
                         ELSE [s1 EXCEPT !.h2s[key] = @ \ {short_id}]
                    ELSE s1
            ELSE s
    IN [popped EXCEPT !.q = ExpirationQueue_remove(@, short_id)]

\* leaves the short id in the expiration queue
remove_transaction_by_short_id_keep_queued(s, short_id) ==
    IF short_id \in DOMAIN s.s2h
    THEN LET key == s.s2h[short_id]
             s1 == [s EXCEPT !.s2h = DictDel(@, short_id)]
         IN IF key \in DOMAIN s1.h2s
            THEN IF Cardinality(s1.h2s[key]) = 1
                 THEN LET s2 == [s1 EXCEPT !.h2s = DictDel(@, key)]
                      IN IF key \in DOMAIN s2.h2c
                         THEN [s2 EXCEPT !.total = @ - Len(s2.h2c[key]),
                                         !.h2c = DictDel(@, key)]
                         ELSE s2
                 ELSE [s1 EXCEPT !.h2s[key] = @ \ {short_id}]
            ELSE s1
    ELSE s

(* TransactionService._remove_transaction_by_short_id *)

remove_transaction_by_short_id(s, short_id) ==
    LET popped ==
            IF short_id \in DOMAIN s.s2h
            THEN LET key == s.s2h[short_id]
                     s1 == [s EXCEPT !.s2h = DictDel(@, short_id)]
                 IN IF key \in DOMAIN s1.h2s
                    THEN IF Cardinality(s1.h2s[key]) = 1
                         THEN LET s2 == [s1 EXCEPT !.h2s = DictDel(@, key)]
                              IN IF key \in DOMAIN s2.h2c
                                 THEN [s2 EXCEPT !.total = @ - Len(s2.h2c[key]),
                                                 !.h2c = DictDel(@, key)]
                                 ELSE s2
                         ELSE IF short_id \in s1.h2s[key]
                              THEN [s1 EXCEPT !.h2s[key] = @ \ {short_id}]
                              ELSE [s1 EXCEPT !.raised = TRUE]  \* set.remove: KeyError
                    ELSE s1
            ELSE s
    IN IF popped.raised /\ ~s.raised
       THEN popped     \* the exception skips the queue removal
       ELSE [popped EXCEPT !.q = ExpirationQueue_remove(@, short_id)]

\* for short_id in short_ids: self._remove_transaction_by_short_id(short_id)
RECURSIVE remove_all(_, _)
remove_all(s, short_ids) ==
    IF short_ids = <<>> THEN s
    ELSE remove_all(remove_transaction_by_short_id(s, Head(short_ids)), Tail(short_ids))

(* ExpirationQueue.remove_oldest(remove_callback): pops the head and hands *)
(* it to the callback; nothing to pop on an empty queue                     *)
ExpirationQueue_remove_oldest(s) ==
    IF Len(s.q) = 0 THEN s
    ELSE remove_transaction_by_short_id([s EXCEPT !.q = Tail(@)], Head(s.q).item)

(* ExpirationQueue.remove_expired(now, remove_callback) *)
RECURSIVE ExpirationQueue_remove_expired(_, _)
ExpirationQueue_remove_expired(s, t) ==
    IF Len(s.q) > 0 /\ Head(s.q).ts + sid_expire_time <= t
    THEN ExpirationQueue_remove_expired(
             remove_transaction_by_short_id([s EXCEPT !.q = Tail(@)], Head(s.q).item), t)
    ELSE s

----------------------------------------------------------------------------
\* faulty variant: adds the new length without subtracting the previous one
set_transaction_contents_no_previous_size(s, transaction_cache_key, transaction_contents) ==
    [s EXCEPT !.h2c = DictSet(@, transaction_cache_key, transaction_contents),
              !.total = @ + Len(transaction_contents)]

(* TransactionService.set_transaction_contents, up to the call of        *)
(* _memory_limit_clean_up                                                  *)
set_transaction_contents(s, transaction_cache_key, transaction_contents) ==
    LET previous_size ==
            IF transaction_cache_key \in DOMAIN s.h2c
            THEN Len(s.h2c[transaction_cache_key])
            ELSE 0
    IN [s EXCEPT !.h2c = DictSet(@, transaction_cache_key, transaction_contents),
                 !.total = @ + Len(transaction_contents) - previous_size]

(* TransactionService.assign_short_id, the three index updates *)
assign_short_id(s, transaction_cache_key, short_id, t) ==
    LET short_ids ==
            IF transaction_cache_key \in DOMAIN s.h2s
            THEN s.h2s[transaction_cache_key]
            ELSE {}     \* defaultdict(set)
    IN [s EXCEPT !.h2s = DictSet(@, transaction_cache_key, short_ids \cup {short_id}),
                 !.s2h = DictSet(@, short_id, transaction_cache_key),
                 !.q = ExpirationQueue_add(@, short_id, t)]

(* TransactionService.get_transaction: (hash, contents, short id) *)
get_transaction(short_id) ==
    IF short_id \in DOMAIN short_id_to_tx_hash
    THEN LET transaction_cache_key == short_id_to_tx_hash[short_id]
         IN IF transaction_cache_key \in DOMAIN tx_hash_to_contents
            THEN <<transaction_cache_key, tx_hash_to_contents[transaction_cache_key], short_id>>
            ELSE <<transaction_cache_key, NoContents, short_id>>
    ELSE <<NoHash, NoContents, short_id>>

(* TransactionService.has_transaction_short_id: the `in` test of a        *)
(* defaultdict, which never calls the default factory                      *)
has_transaction_short_id(s, transaction_cache_key) ==
    [s |-> s, raised |-> FALSE, returned |-> <<transaction_cache_key \in DOMAIN s.h2s>>]

\* faulty variant: indexes the defaultdict(set) without the membership test,
\* so an unknown hash gets a new, empty set
get_short_ids_unguarded(s, transaction_cache_key) ==
    IF transaction_cache_key \in DOMAIN s.h2s
    THEN [s |-> s, raised |-> FALSE, returned |-> <<s.h2s[transaction_cache_key]>>]
    ELSE [s |-> [s EXCEPT !.h2s = DictSet(@, transaction_cache_key, {})],
          raised |-> FALSE, returned |-> <<{}>>]

(* TransactionService.get_short_ids: the stored set, or {NULL_TX_SID} for  *)
(* a hash that is not a key                                                *)
get_short_ids(s, transaction_cache_key) ==
    IF transaction_cache_key \in DOMAIN s.h2s
    THEN [s |-> s, raised |-> FALSE, returned |-> <<s.h2s[transaction_cache_key]>>]
    ELSE [s |-> s, raised |-> FALSE, returned |-> <<{NULL_TX_SID}>>]

(* TransactionService.get_short_id: next(iter(set)) yields whichever       *)
(* element the set iterates first, and raises StopIteration on an empty    *)
(* set; the outcomes the call can have                                     *)
get_short_id(s, transaction_cache_key) ==
    LET got == get_short_ids(s, transaction_cache_key)
        short_ids == got.returned[1]
    IN IF short_ids = {}
       THEN {[s |-> got.s, raised |-> TRUE, returned |-> <<>>]}
       ELSE {[s |-> got.s, raised |-> FALSE, returned |-> <<short_id>>] :
                short_id \in short_ids}

(* one iteration of the while loop of _memory_limit_clean_up *)
memory_limit_clean_up_iteration(s) == ExpirationQueue_remove_oldest(s)

(* TransactionService.expire_old_assignments: the queue clean up *)
expire_old_assignments(s, t) == ExpirationQueue_remove_expired(s, t)

(* AlarmQueue.register_alarm(delay, callback): fire time = now + delay *)
AlarmQueue_register_alarm(a, t, delay) == Append(a, t + delay)

(* AlarmQueue.fire_ready_alarms: what becomes of alarm i once its callback *)
(* has returned next_delay: a positive delay re-inserts it, 0 drops it     *)
AlarmQueue_after_fire(a, i, t, next_delay) ==
    LET rest == [j \in 1..(Len(a) - 1) |-> IF j < i THEN a[j] ELSE a[j + 1]]
    IN IF next_delay > 0 THEN Append(rest, t + next_delay) ELSE rest

\* faulty variant: stops evicting one byte too early
memory_limit_exceeded_off_by_one(s) == s.total > tx_content_memory_limit + 1

(* _memory_limit_clean_up: the condition of its while loop (and, negated,  *)
(* of its early return)                                                    *)
memory_limit_exceeded(s) == s.total > tx_content_memory_limit

(* history of the last handler: its name, its hash argument, the short id  *)
(* -> hash entries it removed and the hashes whose contents it deleted     *)
Hist(op, h, post) ==
    [op |-> op, hash |-> h,
     removed |-> {<<sid, short_id_to_tx_hash[sid]>> :
                     sid \in DOMAIN short_id_to_tx_hash \ DOMAIN post.s2h},
     dropped |-> DOMAIN tx_hash_to_contents \ DOMAIN post.h2c]

----------------------------------------------------------------------------
(* The node that owns the service: AbstractNode.__init__                   *)
(* (src/src/bxcommon/connections/abstract_node.py)                         *)

\* the (ip, port) pairs of the peers: the SDN, a relay and a blockchain node
SDN_ADDRESS == "sdn:1"
RELAY_ADDRESS == "relay:2"
BLOCKCHAIN_ADDRESS == "blockchain:3"
Addresses == {SDN_ADDRESS, RELAY_ADDRESS, BLOCKCHAIN_ADDRESS}
NoAddress == "None"
\* opts.outbound_peers: the peers given on the command line
opts_outbound_peers == <<>>

\* no connection (Python's None where a connection is expected)
NoConn == 0

\* no alarm (a callback the event loop called, not the alarm queue)
NoAlarm ==
    [fn |-> "None", conn |-> NoConn, ip_port |-> NoAddress, connection_type |-> {},
     delay |-> 0]

\* a callback that did nothing and returned nothing
NoCallback ==
    [fired |-> NoAlarm, added |-> "None", process_message_calls |-> 0,
     destroy_conn_calls |-> <<>>, peer_conn_err_events |-> 0,
     registered |-> EmptyBag, enqueued |-> <<>>, returned |-> <<>>, broadcast |-> <<>>]

\* OutputBuffer.__init__, MessageTracker.__init__ and Feed.__init__
OutputBuffer_init == [output_msgs |-> <<>>, index |-> 0, length |-> 0]
NoCall == [op |-> "None", raised |-> FALSE, returned |-> <<>>]
\* no call on the buffer yet: nothing enqueued, nothing advanced
NoBufferCall ==
    [op |-> "init", raised |-> FALSE, returned |-> <<>>, arg |-> 0, before |-> OutputBuffer_init,
     enqueued |-> <<>>, advanced |-> 0, beyond_head |-> FALSE]
Components_init ==
    /\ out_buf = OutputBuffer_init
    /\ out_last = NoBufferCall
    /\ messages = <<>>
    /\ trackers = EmptyDict
    /\ tracker_last = [NoCall EXCEPT !.op = "init"]
    /\ subscribers = EmptyDict
    /\ feed_last = [NoCall EXCEPT !.op = "init"]

AbstractNode_init(pings, remote) ==
    /\ Components_init
    /\ conns = EmptyDict
    /\ connection_pool = EmptyDict
    /\ connection_queue = <<>>
    /\ disconnect_queue = <<>>
    /\ outbound_peers = opts_outbound_peers
    /\ num_retries_by_ip = [a \in Addresses |-> 0]
    /\ alarm_queue = EmptyBag
    /\ schedule_pings_on_timeout = pings
    /\ peer = remote
    /\ node_last = NoCallback

----------------------------------------------------------------------------
TxInit ==
    /\ tx_hash_to_short_ids = EmptyDict
    /\ short_id_to_tx_hash = EmptyDict
    /\ tx_hash_to_contents = EmptyDict
    /\ tx_assignment_expire_queue = <<>>
    /\ short_ids_seen_in_block = <<>>
    /\ total_tx_contents_size = 0
    /\ total_tx_removed_by_memory_limit = 0
    /\ tx_assign_alarm_scheduled = FALSE
    /\ alarms = <<>>
    /\ now = 0
    /\ pc = "idle"
    /\ removed_tx_count = 0
    /\ raised = FALSE
    /\ last = [op |-> "init", hash |-> NoHash, removed |-> {}, dropped |-> {}]
    /\ evicted_tx_count = 0
    /\ AbstractNode_init(FALSE, NoAddress)

(* time.time() advances between handlers *)
Tick ==
    /\ pc = "idle"
    /\ now < MaxTime
    /\ now' = now + 1
    /\ UNCHANGED <<tx_hash_to_short_ids, short_id_to_tx_hash, tx_hash_to_contents,
                   tx_assignment_expire_queue, short_ids_seen_in_block,
                   total_tx_contents_size, total_tx_removed_by_memory_limit,
                   tx_assign_alarm_scheduled, alarms, pc, removed_tx_count,
                   raised, last, evicted_tx_count>>
    /\ UNCHANGED node_vars

(* set_transaction_contents(hash, contents): writes the contents and       *)
(* enters _memory_limit_clean_up, which returns at once when the size is   *)
(* within the limit                                                        *)
SetTransactionContents ==
    /\ pc = "idle"
    /\ total_tx_removed_by_memory_limit < MaxRemovedTotal
    /\ \E h \in Hashes, c \in Contents :
          LET post == set_transaction_contents(Cur, h, c)
          IN /\ SetCur(post)
             /\ pc' = IF memory_limit_exceeded(post) THEN "cleanup" ELSE "idle"
             /\ last' = Hist("set_transaction_contents", h, post)
    /\ removed_tx_count' = 0
    /\ UNCHANGED <<short_ids_seen_in_block, total_tx_removed_by_memory_limit,
                   tx_assign_alarm_scheduled, alarms, now, evicted_tx_count>>
    /\ UNCHANGED node_vars

(* the body of: while total_tx_contents_size > limit *)
MemoryLimitCleanUpIteration ==
    /\ pc = "cleanup"
    /\ memory_limit_exceeded(Cur)
    /\ removed_tx_count < MaxRemovedCount
    /\ LET post == memory_limit_clean_up_iteration(Cur)
       IN /\ SetCur(post)
          /\ last' = Hist(last.op, last.hash, post)
          /\ evicted_tx_count' = evicted_tx_count
                 + Cardinality(DOMAIN tx_hash_to_short_ids \ DOMAIN post.h2s)
    /\ removed_tx_count' = removed_tx_count + 1
    /\ UNCHANGED <<short_ids_seen_in_block, total_tx_removed_by_memory_limit,
                   tx_assign_alarm_scheduled, alarms, now, pc>>
    /\ UNCHANGED node_vars

(* the loop exit of _memory_limit_clean_up and the return of               *)
(* set_transaction_contents                                                *)
MemoryLimitCleanUpReturn ==
    /\ pc = "cleanup"
    /\ ~memory_limit_exceeded(Cur)
    /\ total_tx_removed_by_memory_limit' = total_tx_removed_by_memory_limit + removed_tx_count
    /\ pc' = "idle"
    /\ UNCHANGED <<tx_hash_to_short_ids, short_id_to_tx_hash, tx_hash_to_contents,
                   tx_assignment_expire_queue, short_ids_seen_in_block,
                   total_tx_contents_size, tx_assign_alarm_scheduled, alarms, now,
                   removed_tx_count, raised, last, evicted_tx_count>>
    /\ UNCHANGED node_vars

(* assign_short_id(hash, short_id) *)
AssignShortId ==
    /\ pc = "idle"
    /\ \E h \in Hashes, sid \in Sids \cup {NULL_TX_SID} :
          /\ last' = Hist("assign_short_id", h, Cur)
          /\ IF sid = NULL_TX_SID
             THEN UNCHANGED <<tx_hash_to_short_ids, short_id_to_tx_hash,
                              tx_hash_to_contents, tx_assignment_expire_queue,
                              total_tx_contents_size, raised,
                              tx_assign_alarm_scheduled, alarms>>
             ELSE /\ SetCur(assign_short_id(Cur, h, sid, now))
                  /\ IF ~tx_assign_alarm_scheduled
                     THEN /\ alarms' = AlarmQueue_register_alarm(alarms, now, sid_expire_time)
                          /\ tx_assign_alarm_scheduled' = TRUE
                     ELSE UNCHANGED <<alarms, tx_assign_alarm_scheduled>>
    /\ UNCHANGED <<short_ids_seen_in_block, total_tx_removed_by_memory_limit, now, pc,
                   removed_tx_count, evicted_tx_count>>
    /\ UNCHANGED node_vars

(* TransactionService.track_seen_short_ids: the deque and the index after  *)
(* the call                                                                *)
track_seen_short_ids(s, seen_in_block, short_ids) ==
    LET seen == Append(seen_in_block, short_ids)
    IN IF Len(seen) > final_tx_confirmations_count
       THEN [seen |-> Tail(seen), s |-> remove_all(s, Head(seen))]
       ELSE [seen |-> seen, s |-> s]

(* track_seen_short_ids(short_ids) *)
TrackSeenShortIds ==
    /\ pc = "idle"
    /\ \E short_ids \in Batches :
          LET post == track_seen_short_ids(Cur, short_ids_seen_in_block, short_ids)
          IN /\ short_ids_seen_in_block' = post.seen
             /\ SetCur(post.s)
             /\ last' = Hist("track_seen_short_ids", NoHash, post.s)
    /\ UNCHANGED <<total_tx_removed_by_memory_limit, tx_assign_alarm_scheduled, alarms,
                   now, pc, removed_tx_count, evicted_tx_count>>
    /\ UNCHANGED node_vars

\* faulty: leaves tx_assign_alarm_scheduled set when the alarm cancels itself
ExpireOldAssignmentsKeepFlag ==
    /\ pc = "idle"
    /\ \E i \in 1..Len(alarms) :
          /\ alarms[i] <= now
          /\ LET post == expire_old_assignments(Cur, now)
                 next_delay == IF Len(post.q) > 0 THEN sid_expire_time ELSE 0
             IN /\ SetCur(post)
                /\ alarms' = AlarmQueue_after_fire(alarms, i, now, next_delay)
                /\ last' = Hist("expire_old_assignments", NoHash, post)
    /\ UNCHANGED <<short_ids_seen_in_block, total_tx_removed_by_memory_limit, now, pc,
                   removed_tx_count, evicted_tx_count, tx_assign_alarm_scheduled>>
    /\ UNCHANGED node_vars

(* the alarm queue fires a ready expire_old_assignments alarm *)
ExpireOldAssignments ==
    /\ pc = "idle"
    /\ \E i \in 1..Len(alarms) :
          /\ alarms[i] <= now
          /\ LET post == expire_old_assignments(Cur, now)
                 next_delay == IF Len(post.q) > 0 THEN sid_expire_time ELSE 0
             IN /\ SetCur(post)
                /\ tx_assign_alarm_scheduled' =
                       IF Len(post.q) > 0 THEN tx_assign_alarm_scheduled ELSE FALSE
                /\ alarms' = AlarmQueue_after_fire(alarms, i, now, next_delay)
                /\ last' = Hist("expire_old_assignments", NoHash, post)
    /\ UNCHANGED <<short_ids_seen_in_block, total_tx_removed_by_memory_limit, now, pc,
                   removed_tx_count, evicted_tx_count>>
    /\ UNCHANGED node_vars

TxNext ==
    \/ Tick
    \/ SetTransactionContents
    \/ MemoryLimitCleanUpIteration
    \/ MemoryLimitCleanUpReturn
    \/ AssignShortId
    \/ TrackSeenShortIds
    \/ ExpireOldAssignments

TxSpec == TxInit /\ [][TxNext]_vars

----------------------------------------------------------------------------
(* The service with its read-only queries as handlers of their own *)

\* history of a query: its name, its argument, the index it found and what
\* it gave back
Query(op, h, out) ==
    [op |-> op, hash |-> h, removed |-> {}, dropped |-> {},
     before |-> tx_hash_to_short_ids, raised |-> out.raised, returned |-> out.returned]

QueryCall(op, h, out) ==
    /\ pc = "idle"
    /\ SetCur(out.s)
    /\ last' = Query(op, h, out)
    /\ UNCHANGED <<short_ids_seen_in_block, total_tx_removed_by_memory_limit,
                   tx_assign_alarm_scheduled, alarms, now, pc, removed_tx_count,
                   evicted_tx_count>>
    /\ UNCHANGED node_vars

(* has_transaction_short_id(hash) *)
HasTransactionShortId ==
    \E h \in Hashes :
        QueryCall("has_transaction_short_id", h, has_transaction_short_id(Cur, h))

(* get_short_ids(hash) *)
GetShortIds ==
    \E h \in Hashes : QueryCall("get_short_ids", h, get_short_ids(Cur, h))

(* get_short_id(hash) *)
GetShortId ==
    \E h \in Hashes : \E out \in get_short_id(Cur, h) : QueryCall("get_short_id", h, out)

QueryNext ==
    \/ Tick
    \/ SetTransactionContents
    \/ MemoryLimitCleanUpIteration
    \/ MemoryLimitCleanUpReturn
    \/ AssignShortId
    \/ TrackSeenShortIds
    \/ ExpireOldAssignments
    \/ HasTransactionShortId
    \/ GetShortIds
    \/ GetShortId

QuerySpec == TxInit /\ [][QueryNext]_vars

----------------------------------------------------------------------------
(* Properties of the transaction service *)

RECURSIVE SumOfLengths(_, _)
SumOfLengths(d, keys) ==
    IF keys = {} THEN 0
    ELSE LET k == CHOOSE x \in keys : TRUE
         IN Len(d[k]) + SumOfLengths(d, keys \ {k})

\* C1: byte accounting. In every reachable state total_tx_contents_size is the
\* sum of the lengths of the values of tx_hash_to_contents.
C1_ByteAccounting ==
    total_tx_contents_size = SumOfLengths(tx_hash_to_contents, DOMAIN tx_hash_to_contents)

\* a handler has deleted the contents of a hash together with its last short
\* id while contents of another hash stay cached
C1_Witness ==
    /\ last.dropped # {}
    /\ DOMAIN tx_hash_to_contents # {}
    /\ total_tx_contents_size > 0

\* C2: forward coherence. Every entry short_id_to_tx_hash[sid] = h has sid in
\* tx_hash_to_short_ids[h], and the set.remove of
\* _remove_transaction_by_short_id has never raised.
C2_ForwardCoherence ==
    /\ \A sid \in DOMAIN short_id_to_tx_hash :
          /\ short_id_to_tx_hash[sid] \in DOMAIN tx_hash_to_short_ids
          /\ sid \in tx_hash_to_short_ids[short_id_to_tx_hash[sid]]
    /\ ~raised

\* a short id has been removed from a hash that keeps another short id
C2_Witness ==
    \E r \in last.removed :
        /\ r[2] \in DOMAIN tx_hash_to_short_ids
        /\ \E sid \in tx_hash_to_short_ids[r[2]] :
              sid \in DOMAIN short_id_to_tx_hash /\ short_id_to_tx_hash[sid] = r[2]

\* C3: reverse coherence. For every hash h and every sid in
\* tx_hash_to_short_ids[h], short_id_to_tx_hash[sid] exists and equals h.
C3_ReverseCoherence ==
    \A h \in DOMAIN tx_hash_to_short_ids :
        \A sid \in tx_hash_to_short_ids[h] :
            sid \in DOMAIN short_id_to_tx_hash /\ short_id_to_tx_hash[sid] = h

\* C4: memory cap. After every completed set_transaction_contents the total
\* contents size is within the limit whenever a cached entry fits the limit.
C4_MemoryCap ==
    ( /\ pc = "idle"
      /\ last.op = "set_transaction_contents"
      /\ \E h \in DOMAIN tx_hash_to_contents :
            Len(tx_hash_to_contents[h]) <= tx_content_memory_limit )
    => total_tx_contents_size <= tx_content_memory_limit

\* a set_transaction_contents that had to evict has returned and left an
\* entry in the cache
C4_Witness ==
    /\ pc = "idle"
    /\ last.op = "set_transaction_contents"
    /\ removed_tx_count > 0
    /\ \E h \in DOMAIN tx_hash_to_contents :
          Len(tx_hash_to_contents[h]) <= tx_content_memory_limit

\* an iteration of the eviction loop of set_transaction_contents(last.hash, b)
EvictionStep ==
    /\ pc = "cleanup"
    /\ pc' = "cleanup"
    /\ removed_tx_count' = removed_tx_count + 1

\* C5: eviction order. Every iteration of the eviction loop removes the head of
\* the expiration queue and nothing else, and it does not evict the contents
\* just written for H while contents of another (older) entry stay cached.
C5_EvictionOrder ==
    [][EvictionStep =>
          /\ Len(tx_assignment_expire_queue) > 0 =>
                /\ tx_assignment_expire_queue' = Tail(tx_assignment_expire_queue)
                /\ DOMAIN short_id_to_tx_hash \ DOMAIN short_id_to_tx_hash'
                       \subseteq {Head(tx_assignment_expire_queue).item}
          /\ ( /\ last.hash \in DOMAIN tx_hash_to_contents
               /\ last.hash \notin DOMAIN tx_hash_to_contents' )
             => DOMAIN tx_hash_to_contents' = {}
      ]_vars

\* C6: removal of one short id. If its hash keeps another short id, the
\* contents, the other short ids and the total size are unchanged; if it was
\* the last short id of the hash, the hash leaves tx_hash_to_short_ids and
\* tx_hash_to_contents and the total size drops by the contents length.
C6_RemovalEffect ==
    [][\A sid \in Sids :
          (DOMAIN short_id_to_tx_hash \ DOMAIN short_id_to_tx_hash' = {sid}) =>
             LET h == short_id_to_tx_hash[sid]
             IN /\ h \in DOMAIN tx_hash_to_short_ids
                /\ short_id_to_tx_hash' = DictDel(short_id_to_tx_hash, sid)
                /\ IF tx_hash_to_short_ids[h] # {sid}
                   THEN /\ tx_hash_to_short_ids' =
                               [tx_hash_to_short_ids EXCEPT ![h] = @ \ {sid}]
                        /\ tx_hash_to_contents' = tx_hash_to_contents
                        /\ total_tx_contents_size' = total_tx_contents_size
                   ELSE /\ tx_hash_to_short_ids' = DictDel(tx_hash_to_short_ids, h)
                        /\ tx_hash_to_contents' = DictDel(tx_hash_to_contents, h)
                        /\ total_tx_contents_size' = total_tx_contents_size
                               - (IF h \in DOMAIN tx_hash_to_contents
                                  THEN Len(tx_hash_to_contents[h]) ELSE 0)
      ]_vars

\* the last handler removed one short id of a hash that keeps another short id
\* and its contents
C6_Witness ==
    \E r \in last.removed :
        /\ last.removed = {r}
        /\ last.dropped = {}
        /\ r[2] \in DOMAIN tx_hash_to_short_ids
        /\ r[2] \in DOMAIN tx_hash_to_contents

\* a call of track_seen_short_ids
TrackStep ==
    /\ pc = "idle"
    /\ now' = now
    /\ last'.op = "track_seen_short_ids"

\* C7: block-confirmation window. A tracked batch stays pending while at most
\* final_tx_confirmations_count batches are pending; the call that makes one
\* more pending removes the oldest batch, after which each of its short ids is
\* absent from short_id_to_tx_hash, from every tx_hash_to_short_ids set and from
\* the expiration queue, get_transaction answers (None, None, sid), and the
\* total size has dropped by the contents of the hashes left without short id.
C7_ConfirmationWindow ==
    [][TrackStep =>
          IF Len(short_ids_seen_in_block) < final_tx_confirmations_count
          THEN /\ Len(short_ids_seen_in_block') = Len(short_ids_seen_in_block) + 1
               /\ SubSeq(short_ids_seen_in_block', 1, Len(short_ids_seen_in_block))
                      = short_ids_seen_in_block
               /\ UNCHANGED <<tx_hash_to_short_ids, short_id_to_tx_hash,
                              tx_hash_to_contents, tx_assignment_expire_queue,
                              total_tx_contents_size>>
          ELSE /\ Len(short_ids_seen_in_block') = final_tx_confirmations_count
               /\ \A sid \in SeqToSet(Head(short_ids_seen_in_block)) :
                     /\ sid \notin DOMAIN short_id_to_tx_hash'
                     /\ \A h \in DOMAIN tx_hash_to_short_ids' :
                           sid \notin tx_hash_to_short_ids'[h]
                     /\ sid \notin ExpirationQueue_items(tx_assignment_expire_queue')
                     /\ get_transaction(sid)' = <<NoHash, NoContents, sid>>
               /\ total_tx_contents_size' = total_tx_contents_size
                      - SumOfLengths(tx_hash_to_contents,
                            {h \in DOMAIN tx_hash_to_contents :
                                /\ h \in DOMAIN tx_hash_to_short_ids
                                /\ h \notin DOMAIN tx_hash_to_short_ids'})
      ]_vars

C9_EvictionTerminates ==
    (pc = "cleanup" /\ memory_limit_exceeded(Cur))
        => Len(tx_assignment_expire_queue) > 0

\* C10: eviction counter. Between handlers total_tx_removed_by_memory_limit is
\* the number of transactions that memory-limit eviction removed from the cache.
C10_EvictionCounter ==
    pc = "idle" => total_tx_removed_by_memory_limit = evicted_tx_count

----------------------------------------------------------------------------
(* AbstractNode (src/src/bxcommon/connections/abstract_node.py): the       *)
(* event-loop callbacks, the connect and disconnect queues, the connection *)
(* timeout and retry alarms and broadcast.                                 *)
(*                                                                         *)
(* AbstractConnection, ConnectionPool, ConnectionState, ConnectionType and *)
(* bxcommon.constants are collaborators of the node; their operators       *)
(* follow the specification (sections 3, 4.2, 4.3 and 4.5) and the node's  *)
(* unit test.  Time is left out of the node's alarm queue: a pending alarm *)
(* may fire at any moment.                                                 *)

(* Bounds of the node model *)
MaxConns == 2
MaxQueue == 1
MaxRetryAlarms == 1
MaxInput == 1
MaxOutput == 2
MaxRetries == 2

\* the file descriptors the operating system hands out
Filenos == {5, 6}

(* bxcommon.constants *)
CONNECTION_TIMEOUT == 3
CONNECTION_RETRY_SECONDS == 1
PING_INTERVAL_S == 60
MAX_CONNECT_RETRIES == 2
CANCEL_ALARMS == 0
ALL_NETWORK_NUM == 0
\* opts.blockchain_network_num
network_num == 7

(* ConnectionState: a bitmask, here the set of the bits that are set *)
CONNECTING == {}
INITIALIZED == {"INITIALIZED"}
ESTABLISHED == {"ESTABLISHED"}
MARK_FOR_CLOSE == {"MARK_FOR_CLOSE"}

(* ConnectionType: a bitmask, here the set of the bits that are set *)
SDN == {"SDN"}
BLOCKCHAIN_NODE == {"BLOCKCHAIN_NODE"}
REMOTE_BLOCKCHAIN_NODE == {"REMOTE_BLOCKCHAIN_NODE"}
RELAY_TRANSACTION == {"RELAY_TRANSACTION"}
RELAY_BLOCK == {"RELAY_BLOCK"}
RELAY_ALL == RELAY_TRANSACTION \cup RELAY_BLOCK

\* Python's None for the optional arguments of broadcast
NoNetworkNum == -1
NoConnectionTypes == <<{"None"}>>

\* a & b, and its truth value
BitAnd(a, b) == a \cap b
Truthy(a) == a # {}

\* the connection class and network that build_connection gives a peer
ConnectionTypeOf(ip_port) ==
    CASE ip_port = SDN_ADDRESS -> SDN
      [] ip_port = RELAY_ADDRESS -> RELAY_ALL
      [] OTHER -> BLOCKCHAIN_NODE
NetworkNumOf(ip_port) ==
    IF ip_port = BLOCKCHAIN_ADDRESS THEN network_num ELSE ALL_NETWORK_NUM

\* the messages: each is MsgLen bytes on the wire
MsgLen == 2
\* bytes i+1 .. MsgLen of a message
MsgBytes(m, i) == [k \in 1..(MsgLen - i) |-> <<m, i + k>>]

(* AbstractNode.build_connection (abstract): a fresh connection object *)
build_connection(fileno, ip_port, from_me) ==
    [fileno |-> fileno, ip_port |-> ip_port, from_me |-> from_me,
     CONNECTION_TYPE |-> ConnectionTypeOf(ip_port),
     network_num |-> NetworkNumOf(ip_port),
     state |-> CONNECTING,
     inputbuf |-> <<>>,
     outputbuf |-> [output_msgs |-> <<>>, index |-> 0],
     timeouts |-> 0]

(* AbstractConnection *)
is_active(c) ==
    /\ Truthy(BitAnd(c.state, ESTABLISHED))
    /\ ~Truthy(BitAnd(c.state, MARK_FOR_CLOSE))
mark_for_close(c) == [c EXCEPT !.state = @ \cup MARK_FOR_CLOSE]
\* add_received_bytes: the bytes go to the input buffer; handling them can
\* mark the connection for close
add_received_bytes(c, bytes_received, marks) ==
    LET c1 == [c EXCEPT !.inputbuf = @ \o bytes_received]
    IN IF marks THEN mark_for_close(c1) ELSE c1
\* process_message: consumes the input buffer; a valid hello/ack establishes
\* the connection, a protocol failure marks it for close
process_message(c, outcome) ==
    LET c1 == [c EXCEPT !.inputbuf = <<>>]
    IN CASE outcome = "established" -> [c1 EXCEPT !.state = @ \cup ESTABLISHED]
         [] outcome = "mark_for_close" -> mark_for_close(c1)
         [] OTHER -> c1
\* OutputBuffer.get_buffer: head[index:]
get_buffer(c) ==
    IF c.outputbuf.output_msgs = <<>> THEN <<>>
    ELSE MsgBytes(Head(c.outputbuf.output_msgs), c.outputbuf.index)
\* OutputBuffer.advance_buffer: move the index, pop a head fully sent
advance_sent_bytes(c, bytes_sent) ==
    IF c.outputbuf.index + bytes_sent >= MsgLen
    THEN [c EXCEPT !.outputbuf = [output_msgs |-> Tail(@.output_msgs), index |-> 0]]
    ELSE [c EXCEPT !.outputbuf.index = @ + bytes_sent]
\* enqueue_msg: append, or prepend behind a partially sent head
enqueue_msg(c, msg, prepend_to_queue) ==
    LET q == c.outputbuf.output_msgs
    IN IF ~is_active(c) THEN c
       ELSE IF ~prepend_to_queue THEN [c EXCEPT !.outputbuf.output_msgs = Append(q, msg)]
       ELSE IF c.outputbuf.index = 0 THEN [c EXCEPT !.outputbuf.output_msgs = <<msg>> \o q]
       ELSE [c EXCEPT !.outputbuf.output_msgs = <<Head(q), msg>> \o Tail(q)]

(* OutputBuffer: a deque of byte slices and the index into the head slice *)
enqueue_msgbytes(buf, msg_bytes) ==
    [buf EXCEPT !.output_msgs = Append(@, msg_bytes), !.length = @ + Len(msg_bytes)]

\* get_buffer: head[index:], a RuntimeError on an empty buffer
OutputBuffer_get_buffer(buf) ==
    IF buf.output_msgs = <<>> THEN [raised |-> TRUE, result |-> <<>>]
    ELSE [raised |-> FALSE,
          result |-> SubSeq(Head(buf.output_msgs), buf.index + 1, Len(Head(buf.output_msgs)))]

\* faulty: keeps a head that is fully sent
advance_buffer_no_pop(buf, num_bytes, beyond) ==
    IF num_bytes > buf.length THEN [raised |-> TRUE, buf |-> buf]
    ELSE [raised |-> FALSE,
          buf |-> [buf EXCEPT !.index = @ + num_bytes, !.length = @ - num_bytes]]

\* advance_buffer: a ValueError beyond the buffered length; else the index
\* moves and a head fully consumed is popped.  An advance beyond the head
\* slice is not described: it fails (beyond = "raise") or pops the head
\* (beyond = "pop").
advance_buffer(buf, num_bytes, beyond) ==
    IF num_bytes > buf.length \/ buf.output_msgs = <<>> THEN [raised |-> TRUE, buf |-> buf]
    ELSE LET index == buf.index + num_bytes
             head == Head(buf.output_msgs)
         IN IF index < Len(head)
            THEN [raised |-> FALSE,
                  buf |-> [buf EXCEPT !.index = index, !.length = @ - num_bytes]]
            ELSE IF index = Len(head) \/ beyond = "pop"
            THEN [raised |-> FALSE,
                  buf |-> [output_msgs |-> Tail(buf.output_msgs), index |-> 0,
                           length |-> buf.length - num_bytes]]
            ELSE [raised |-> TRUE, buf |-> buf]

\* faulty: always puts the message at the front
prepend_msg_front(buf, msg_bytes) ==
    [buf EXCEPT !.output_msgs = <<msg_bytes>> \o @, !.length = @ + Len(msg_bytes)]

\* prepend_msg: at the front, or behind a partially sent head
prepend_msg(buf, msg_bytes) ==
    IF buf.index = 0
    THEN [buf EXCEPT !.output_msgs = <<msg_bytes>> \o @, !.length = @ + Len(msg_bytes)]
    ELSE [buf EXCEPT !.output_msgs = <<Head(@), msg_bytes>> \o Tail(@),
                     !.length = @ + Len(msg_bytes)]

(* MessageTracker: a deque of MessageTrackerEntry (queued_time, which only *)
(* feeds the log lines, is left out)                                       *)
NoMessage == "None"
TrackedMessages == {NoMessage, "ping", "tx"}
\* len(message.rawbytes())
RawBytesLen(message) == IF message = "ping" THEN 1 ELSE 2
MessageTrackerEntry(message, length) ==
    [message |-> message, length |-> length, sent_bytes |-> 0]

\* faulty: counts the whole length of a partly sent head as sent now
RECURSIVE advance_bytes_whole_head(_, _)
advance_bytes_whole_head(tracked, bytes_left) ==
    IF bytes_left <= 0 THEN [messages |-> tracked, raised |-> FALSE]
    ELSE IF Len(tracked) = 0 THEN [messages |-> tracked, raised |-> TRUE]
    ELSE IF bytes_left >= tracked[1].length - tracked[1].sent_bytes
    THEN advance_bytes_whole_head(Tail(tracked), bytes_left - tracked[1].length)
    ELSE [messages |-> [tracked EXCEPT ![1].sent_bytes = @ + bytes_left], raised |-> FALSE]

\* advance_bytes: the while loop; its assert fails when the deque runs out
RECURSIVE advance_bytes(_, _)
advance_bytes(tracked, bytes_left) ==
    IF bytes_left <= 0 THEN [messages |-> tracked, raised |-> FALSE]
    ELSE IF Len(tracked) = 0 THEN [messages |-> tracked, raised |-> TRUE]
    ELSE IF bytes_left >= tracked[1].length - tracked[1].sent_bytes
    THEN advance_bytes(Tail(tracked), bytes_left - (tracked[1].length - tracked[1].sent_bytes))
    ELSE [messages |-> [tracked EXCEPT ![1].sent_bytes = @ + bytes_left], raised |-> FALSE]

append_message(tracked, num_bytes, message) ==
    IF message # NoMessage /\ num_bytes # RawBytesLen(message)
    THEN [messages |-> tracked, raised |-> TRUE]
    ELSE [messages |-> Append(tracked, MessageTrackerEntry(message, num_bytes)),
          raised |-> FALSE]

prepend_message(tracked, num_bytes, message) ==
    IF message # NoMessage /\ num_bytes # RawBytesLen(message)
    THEN [messages |-> tracked, raised |-> TRUE]
    ELSE IF tracked # <<>> /\ tracked[1].sent_bytes # 0
    THEN [messages |-> <<tracked[1], MessageTrackerEntry(message, num_bytes)>> \o Tail(tracked),
          raised |-> FALSE]
    ELSE [messages |-> tracked, raised |-> FALSE]

\* MessageTracker.__init__(connection): the attributes of the new instance
MessageTracker_init(connection) == [connection |-> connection]

\* self.messages: the attribute of the instance if it has one, else the
\* attribute of the class
getattr_messages(instance, class_messages) ==
    IF "messages" \in DOMAIN instance THEN instance.messages ELSE class_messages

(* EthNewTransactionFeed: the newTxs feed and its subscribers *)
FeedSources == {"BLOCKCHAIN_SOCKET", "BDN_SOCKET"}
\* the include_from_blockchain entry of a subscriber's options
IncludeOptions == {"absent", "None", "True", "False"}
\* options.get("include_from_blockchain", True), as a truth value
include_from_blockchain(options) == options.include_from_blockchain \in {"absent", "True"}

\* eth_filter_handlers: the raw fields of a transaction and their normal form
RawValues == {"0x5", "0x14"}
RawAddresses == {"0xabc", "ABC", "0xdef"}
reformat_tx_value(value) == IF value = "0x5" THEN 5 ELSE 20
reformat_address(address) == IF address = "0xdef" THEN "0xdef" ELSE "0xabc"
FilterState(contents) ==
    [value |-> reformat_tx_value(contents.value),
     to |-> reformat_address(contents.to),
     from |-> reformat_address(contents.from),
     gas_price |-> contents.gas_price,
     method_id |-> contents.input]

\* the filter expressions of the subscribers, and Subscriber.validate
NoFilter == "None"
Filters == {NoFilter, "value > 10 and to == 0xabc", "value > 10 or from == 0xdef"}
validate(filters, state) ==
    CASE filters = "value > 10 and to == 0xabc" -> state.value > 10 /\ state.to = "0xabc"
      [] filters = "value > 10 or from == 0xdef" -> state.value > 10 \/ state.from = "0xdef"
      [] OTHER -> TRUE

serialize(raw_message) ==
    [tx_hash |-> raw_message.tx_hash, tx_contents |-> raw_message.tx_contents,
     local_region |-> raw_message.local_region]

\* faulty: every item is wanted
any_subscribers_want_item_always(subs, raw_message) == TRUE

\* faulty: options.get("include_from_blockchain", False), so that a subscriber
\* without the option counts as one that opted out
any_subscribers_want_item_default_false(subs, raw_message) ==
    IF raw_message.source = "BLOCKCHAIN_SOCKET"
    THEN \E id \in DOMAIN subs : subs[id].options.include_from_blockchain = "True"
    ELSE TRUE

any_subscribers_want_item(subs, raw_message) ==
    IF raw_message.source = "BLOCKCHAIN_SOCKET"
    THEN \E id \in DOMAIN subs : include_from_blockchain(subs[id].options)
    ELSE TRUE

\* faulty: ignores the source of the item
should_publish_message_to_subscriber_any_source(subscriber, raw_message, serialized_message) ==
    IF subscriber.filters # NoFilter
    THEN validate(subscriber.filters, FilterState(serialized_message.tx_contents))
    ELSE TRUE

should_publish_message_to_subscriber(subscriber, raw_message, serialized_message) ==
    IF /\ raw_message.source = "BLOCKCHAIN_SOCKET"
       /\ ~include_from_blockchain(subscriber.options)
    THEN FALSE
    ELSE IF subscriber.filters # NoFilter
    THEN validate(subscriber.filters, FilterState(serialized_message.tx_contents))
    ELSE TRUE

\* Feed.publish: nothing without subscribers; else one serialization and a
\* delivery to every subscriber that should get the message
Feed_publish(subs, raw_message) ==
    IF subs = EmptyDict THEN [serialized |-> <<>>, delivered |-> {}]
    ELSE LET serialized_message == serialize(raw_message)
         IN [serialized |-> <<serialized_message>>,
             delivered |-> {id \in DOMAIN subs :
                              should_publish_message_to_subscriber(subs[id], raw_message,
                                                                   serialized_message)}]

\* EthNewTransactionFeed.publish: the serializations made and the
\* subscribers the entry was delivered to
publish(subs, raw_message) ==
    IF ~any_subscribers_want_item(subs, raw_message)
    THEN [serialized |-> <<>>, delivered |-> {}]
    ELSE Feed_publish(subs, raw_message)

(* the alarms of the node's AlarmQueue *)
TimeoutAlarm(id) ==
    [fn |-> "_connection_timeout", conn |-> id, ip_port |-> NoAddress,
     connection_type |-> {}, delay |-> CONNECTION_TIMEOUT]
RetryAlarm(delay, ip_port, connection_type) ==
    [fn |-> "_retry_init_client_socket", conn |-> NoConn, ip_port |-> ip_port,
     connection_type |-> connection_type, delay |-> delay]
PingAlarm(id) ==
    [fn |-> "send_ping", conn |-> id, ip_port |-> NoAddress,
     connection_type |-> {}, delay |-> PING_INTERVAL_S]
register_alarm(n, alarm) == [n EXCEPT !.alarm_queue = @ (+) SetToBag({alarm})]
cancel_alarm(n, alarm) == [n EXCEPT !.alarm_queue = @ (-) SetToBag({alarm})]

\* the node's mutable fields at the start of a callback, with the calls the
\* callback makes still to be counted
Node ==
    [conns |-> conns,
     connection_pool |-> connection_pool,
     connection_queue |-> connection_queue,
     disconnect_queue |-> disconnect_queue,
     outbound_peers |-> outbound_peers,
     num_retries_by_ip |-> num_retries_by_ip,
     alarm_queue |-> alarm_queue,
     process_message_calls |-> 0,
     destroy_conn_calls |-> <<>>,
     peer_conn_err_events |-> 0]

(* ConnectionPool *)
PooledConns(n) == {n.connection_pool[f] : f \in DOMAIN n.connection_pool}
has_connection(n, ip_port) == \E id \in PooledConns(n) : n.conns[id].ip_port = ip_port
get_by_fileno(n, fileno) ==
    IF fileno \in DOMAIN n.connection_pool THEN n.connection_pool[fileno] ELSE NoConn
get_by_ipport(n, ip_port) == CHOOSE id \in PooledConns(n) : n.conns[id].ip_port = ip_port
get_by_connection_type(n, connection_type) ==
    {id \in PooledConns(n) : Truthy(BitAnd(n.conns[id].CONNECTION_TYPE, connection_type))}
ConnectionPool_add(n, fileno, id) ==
    [n EXCEPT !.connection_pool = DictSet(@, fileno, id)]
ConnectionPool_delete(n, id) ==
    [n EXCEPT !.connection_pool = [f \in {g \in DOMAIN @ : @[g] # id} |-> @[f]]]

connection_exists(n, ip_port) == has_connection(n, ip_port)

enqueue_connection(n, ip_port) ==
    [n EXCEPT !.connection_queue = Append(@, ip_port)]

enqueue_disconnect(n, fileno) ==
    [n EXCEPT !.disconnect_queue = Append(@, fileno)]

\* None returned by pop_next_disconnect_connection
NoFileno == NoConn

\* faulty: pops the newest request
pop_next_connection_address_newest(n) ==
    IF n.connection_queue # <<>>
    THEN [node |-> [n EXCEPT !.connection_queue = SubSeq(@, 1, Len(@) - 1)],
          result |-> n.connection_queue[Len(n.connection_queue)]]
    ELSE [node |-> n, result |-> NoAddress]

\* the node afterwards and the (ip, port) returned
pop_next_connection_address(n) ==
    IF n.connection_queue # <<>>
    THEN [node |-> [n EXCEPT !.connection_queue = Tail(@)], result |-> Head(n.connection_queue)]
    ELSE [node |-> n, result |-> NoAddress]

\* the node afterwards and the fileno returned
pop_next_disconnect_connection(n) ==
    IF n.disconnect_queue # <<>>
    THEN [node |-> [n EXCEPT !.disconnect_queue = Tail(@)], result |-> Head(n.disconnect_queue)]
    ELSE [node |-> n, result |-> NoFileno]

is_outbound_peer(n, ip_port) == ip_port \in SeqToSet(n.outbound_peers)

should_retry_connection(n, ip_port, connection_type) ==
    LET is_sdn == Truthy(BitAnd(connection_type, SDN))
    IN is_sdn \/ n.num_retries_by_ip[ip_port] < MAX_CONNECT_RETRIES

\* faulty: submits the event whatever the connection type
on_failed_connection_retry_every_type(n, ip_port, connection_type) ==
    [n EXCEPT !.peer_conn_err_events = @ + 1]

\* sdn_http_service.submit_peer_connection_error_event and
\* send_request_for_relay_peers (abstract)
on_failed_connection_retry(n, ip_port, connection_type) ==
    IF Truthy(BitAnd(connection_type, RELAY_ALL))
    THEN [n EXCEPT !.peer_conn_err_events = @ + 1]
    ELSE n

\* faulty: leaves the connection in the pool
destroy_conn_keep_pooled(n, id, retry_connection) ==
    LET conn == n.conns[id]
        n2 == [n EXCEPT !.conns[id] = mark_for_close(conn),
                        !.destroy_conn_calls = Append(@, <<id, retry_connection>>)]
        n3 == IF retry_connection
              THEN IF \/ is_outbound_peer(n2, conn.ip_port)
                      \/ conn.CONNECTION_TYPE = BLOCKCHAIN_NODE
                      \/ conn.CONNECTION_TYPE = REMOTE_BLOCKCHAIN_NODE
                      \/ conn.CONNECTION_TYPE = SDN
                   THEN register_alarm(n2, RetryAlarm(CONNECTION_RETRY_SECONDS,
                                                      conn.ip_port, conn.CONNECTION_TYPE))
                   ELSE n2
              ELSE on_failed_connection_retry(n2, conn.ip_port, conn.CONNECTION_TYPE)
    IN enqueue_disconnect(n3, conn.fileno)

\* faulty: retries outbound peer addresses only
destroy_conn_outbound_only(n, id, retry_connection) ==
    LET conn == n.conns[id]
        n1 == ConnectionPool_delete(n, id)
        n2 == [n1 EXCEPT !.conns[id] = mark_for_close(conn),
                         !.destroy_conn_calls = Append(@, <<id, retry_connection>>)]
        n3 == IF retry_connection
              THEN IF is_outbound_peer(n2, conn.ip_port)
                   THEN register_alarm(n2, RetryAlarm(CONNECTION_RETRY_SECONDS,
                                                      conn.ip_port, conn.CONNECTION_TYPE))
                   ELSE n2
              ELSE on_failed_connection_retry(n2, conn.ip_port, conn.CONNECTION_TYPE)
    IN enqueue_disconnect(n3, conn.fileno)

destroy_conn(n, id, retry_connection) ==
    LET conn == n.conns[id]
        n1 == ConnectionPool_delete(n, id)
        n2 == [n1 EXCEPT !.conns[id] = mark_for_close(conn),
                         !.destroy_conn_calls = Append(@, <<id, retry_connection>>)]
        n3 == IF retry_connection
              THEN IF \/ is_outbound_peer(n2, conn.ip_port)
                      \/ conn.CONNECTION_TYPE = BLOCKCHAIN_NODE
                      \/ conn.CONNECTION_TYPE = REMOTE_BLOCKCHAIN_NODE
                      \/ conn.CONNECTION_TYPE = SDN
                   THEN register_alarm(n2, RetryAlarm(CONNECTION_RETRY_SECONDS,
                                                      conn.ip_port, conn.CONNECTION_TYPE))
                   ELSE n2
              ELSE on_failed_connection_retry(n2, conn.ip_port, conn.CONNECTION_TYPE)
    IN enqueue_disconnect(n3, conn.fileno)

\* the smallest identity no live connection object has
FreshConn(n) == CHOOSE id \in 1..(MaxConns + 1) :
                    /\ id \notin DOMAIN n.conns
                    /\ \A j \in 1..(id - 1) : j \in DOMAIN n.conns

initialize_connection(n, fileno, ip_port, from_me, built) ==
    IF built
    THEN LET id == FreshConn(n)
             n1 == [n EXCEPT !.conns = DictSet(@, id, build_connection(fileno, ip_port, from_me))]
             n2 == register_alarm(n1, TimeoutAlarm(id))
         IN ConnectionPool_add(n2, fileno, id)
    ELSE enqueue_disconnect(n, fileno)

\* faulty: builds a connection without looking for one at the address
on_connection_added_no_duplicate_check(n, fileno, ip_port, from_me, built) ==
    initialize_connection(n, fileno, ip_port, from_me, built)

on_connection_added(n, fileno, ip_port, from_me, built) ==
    IF connection_exists(n, ip_port)
    THEN enqueue_disconnect(n, fileno)
    ELSE initialize_connection(n, fileno, ip_port, from_me, built)

on_connection_initialized(n, fileno) ==
    LET conn == get_by_fileno(n, fileno)
    IN IF conn = NoConn THEN n
       ELSE [n EXCEPT !.conns[conn].state = @ \cup INITIALIZED]

on_connection_closed(n, fileno) ==
    LET conn == get_by_fileno(n, fileno)
    IN IF conn = NoConn THEN n
       ELSE destroy_conn(n, conn, n.conns[conn].from_me)

\* faulty: takes the bytes of a connection that is marked for close
on_bytes_received_when_marked(n, fileno, bytes_received, marks) ==
    LET conn == get_by_fileno(n, fileno)
    IN IF conn = NoConn THEN n
       ELSE LET n1 == [n EXCEPT !.conns[conn] = add_received_bytes(@, bytes_received, marks)]
            IN IF Truthy(BitAnd(n1.conns[conn].state, MARK_FOR_CLOSE))
               THEN destroy_conn(n1, conn, FALSE)
               ELSE n1

on_bytes_received(n, fileno, bytes_received, marks) ==
    LET conn == get_by_fileno(n, fileno)
    IN IF conn = NoConn THEN n
       ELSE IF Truthy(BitAnd(n.conns[conn].state, MARK_FOR_CLOSE)) THEN n
       ELSE LET n1 == [n EXCEPT !.conns[conn] = add_received_bytes(@, bytes_received, marks)]
            IN IF Truthy(BitAnd(n1.conns[conn].state, MARK_FOR_CLOSE))
               THEN destroy_conn(n1, conn, FALSE)
               ELSE n1

on_finished_receiving(n, fileno, outcome) ==
    LET conn == get_by_fileno(n, fileno)
    IN IF conn = NoConn THEN n
       ELSE IF Truthy(BitAnd(n.conns[conn].state, MARK_FOR_CLOSE)) THEN n
       ELSE [n EXCEPT !.conns[conn] = process_message(@, outcome),
                      !.process_message_calls = @ + 1]

\* the bytes returned; None is the empty byte string here
get_bytes_to_send(n, fileno) ==
    LET conn == get_by_fileno(n, fileno)
    IN IF conn = NoConn THEN <<>>
       ELSE IF Truthy(BitAnd(n.conns[conn].state, MARK_FOR_CLOSE)) THEN <<>>
       ELSE get_buffer(n.conns[conn])

on_bytes_sent(n, fileno, bytes_sent) ==
    LET conn == get_by_fileno(n, fileno)
    IN IF conn = NoConn THEN n
       ELSE [n EXCEPT !.conns[conn] = advance_sent_bytes(@, bytes_sent)]

\* faulty: gives up the connection that timed out, without a retry
connection_timeout_no_retry(n, conn, pings) ==
    IF Truthy(BitAnd(n.conns[conn].state, ESTABLISHED))
    THEN [node |-> IF pings THEN register_alarm(n, PingAlarm(conn)) ELSE n,
          result |-> CANCEL_ALARMS]
    ELSE IF Truthy(BitAnd(n.conns[conn].state, MARK_FOR_CLOSE))
    THEN [node |-> n, result |-> CANCEL_ALARMS]
    ELSE [node |-> destroy_conn(n, conn, FALSE), result |-> CANCEL_ALARMS]

\* _connection_timeout(conn): the node afterwards and the value returned
connection_timeout(n, conn, pings) ==
    IF Truthy(BitAnd(n.conns[conn].state, ESTABLISHED))
    THEN [node |-> IF pings THEN register_alarm(n, PingAlarm(conn)) ELSE n,
          result |-> CANCEL_ALARMS]
    ELSE IF Truthy(BitAnd(n.conns[conn].state, MARK_FOR_CLOSE))
    THEN [node |-> n, result |-> CANCEL_ALARMS]
    ELSE [node |-> destroy_conn(n, conn, TRUE), result |-> CANCEL_ALARMS]

retry_init_client_socket(n, ip_port, connection_type) ==
    LET n1 == [n EXCEPT !.num_retries_by_ip[ip_port] = @ + 1]
    IN IF should_retry_connection(n1, ip_port, connection_type)
       THEN enqueue_connection(n1, ip_port)
       ELSE on_failed_connection_retry([n1 EXCEPT !.num_retries_by_ip[ip_port] = 0],
                                       ip_port, connection_type)

RECURSIVE destroy_removed_peers(_, _)
destroy_removed_peers(n, remove_peers) ==
    IF remove_peers = <<>> THEN n
    ELSE LET rem_peer == Head(remove_peers)
             n1 == IF has_connection(n, rem_peer)
                   THEN destroy_conn(n, get_by_ipport(n, rem_peer), FALSE)
                   ELSE n
         IN destroy_removed_peers(n1, Tail(remove_peers))

RECURSIVE connect_new_peers(_, _)
connect_new_peers(n, peers) ==
    IF peers = <<>> THEN n
    ELSE LET n1 == IF ~has_connection(n, Head(peers))
                   THEN enqueue_connection(n, Head(peers))
                   ELSE n
         IN connect_new_peers(n1, Tail(peers))

\* faulty: removes the command-line peers too
on_updated_peers_no_fixed_peers(n, fixed_peers, outbound_peer_models) ==
    IF outbound_peer_models = <<>> THEN n
    ELSE LET remove_peers ==
                 SelectSeq(n.outbound_peers,
                           LAMBDA old_peer : old_peer \notin SeqToSet(outbound_peer_models))
             n1 == destroy_removed_peers(n, remove_peers)
             n2 == connect_new_peers(n1, outbound_peer_models)
         IN [n2 EXCEPT !.outbound_peers = outbound_peer_models]

\* on_updated_peers of a node whose opts.outbound_peers is fixed_peers
on_updated_peers(n, fixed_peers, outbound_peer_models) ==
    IF outbound_peer_models = <<>> THEN n
    ELSE LET remove_peers ==
                 SelectSeq(n.outbound_peers,
                           LAMBDA old_peer :
                               ~(\/ old_peer \in SeqToSet(fixed_peers)
                                 \/ old_peer \in SeqToSet(outbound_peer_models)))
             n1 == destroy_removed_peers(n, remove_peers)
             n2 == connect_new_peers(n1, outbound_peer_models)
         IN [n2 EXCEPT !.outbound_peers = outbound_peer_models]

\* faulty: the broadcasting connection gets the message too
broadcast_connections_to_sender(n, broadcasting_conn, broadcast_network_num, connection_types, exclude_relays) ==
    LET broadcast_net_num == IF broadcast_network_num = NoNetworkNum THEN network_num
                             ELSE broadcast_network_num
        connections_by_types ==
            UNION {get_by_connection_type(n, connection_types[i]) :
                       i \in 1..Len(connection_types)}
    IN {conn \in connections_by_types :
            /\ is_active(n.conns[conn])
            /\ \/ ~exclude_relays /\ n.conns[conn].network_num = ALL_NETWORK_NUM
               \/ n.conns[conn].network_num = broadcast_net_num}

\* faulty: the wildcard network number matches whatever exclude_relays says
broadcast_connections_exclude_ignored(n, broadcasting_conn, broadcast_network_num, connection_types, exclude_relays) ==
    LET broadcast_net_num == IF broadcast_network_num = NoNetworkNum THEN network_num
                             ELSE broadcast_network_num
        connections_by_types ==
            UNION {get_by_connection_type(n, connection_types[i]) :
                       i \in 1..Len(connection_types)}
    IN {conn \in connections_by_types :
            /\ is_active(n.conns[conn])
            /\ conn # broadcasting_conn
            /\ \/ n.conns[conn].network_num = ALL_NETWORK_NUM
               \/ n.conns[conn].network_num = broadcast_net_num}

\* the connections broadcast enqueues msg to
broadcast_connections(n, broadcasting_conn, broadcast_network_num, connection_types, exclude_relays) ==
    LET broadcast_net_num == IF broadcast_network_num = NoNetworkNum THEN network_num
                             ELSE broadcast_network_num
        connections_by_types ==
            UNION {get_by_connection_type(n, connection_types[i]) :
                       i \in 1..Len(connection_types)}
    IN {conn \in connections_by_types :
            LET is_matching_network_num ==
                    \/ ~exclude_relays /\ n.conns[conn].network_num = ALL_NETWORK_NUM
                    \/ n.conns[conn].network_num = broadcast_net_num
            IN /\ is_active(n.conns[conn])
               /\ conn # broadcasting_conn
               /\ is_matching_network_num}

\* faulty: stops after the first connection
RECURSIVE close_first_only(_, _)
close_first_only(n, items) ==
    IF items = <<>> THEN n
    ELSE destroy_conn(n, Head(items), FALSE)

\* close: destroy_conn for each connection of the pool, which items() yields
\* in the order items
RECURSIVE close(_, _)
close(n, items) ==
    IF items = <<>> THEN n
    ELSE close(destroy_conn(n, Head(items), FALSE), Tail(items))

\* the node afterwards and the list returned (here in ascending order; the
\* code returns it in the iteration order of a set)
broadcast(n, msg, broadcasting_conn, prepend_to_queue, broadcast_network_num, connection_types, exclude_relays) ==
    LET to == broadcast_connections(n, broadcasting_conn, broadcast_network_num,
                                    IF connection_types = NoConnectionTypes THEN <<RELAY_ALL>>
                                    ELSE connection_types,
                                    exclude_relays)
    IN [node |-> [n EXCEPT !.conns = [id \in DOMAIN @ |->
                                         IF id \in to
                                         THEN enqueue_msg(@[id], msg, prepend_to_queue)
                                         ELSE @[id]]],
        result |-> Ascending(to)]

----------------------------------------------------------------------------
(* The callbacks as steps of the node *)

tx_vars == <<tx_hash_to_short_ids, short_id_to_tx_hash, tx_hash_to_contents,
             tx_assignment_expire_queue, short_ids_seen_in_block,
             total_tx_contents_size, total_tx_removed_by_memory_limit,
             tx_assign_alarm_scheduled, alarms, now, pc, removed_tx_count,
             raised, last, evicted_tx_count>>

\* connection objects nothing refers to any more are gone
Collect(n) ==
    LET live == PooledConns(n) \cup {a.conn : a \in BagToSet(n.alarm_queue)}
    IN [id \in DOMAIN n.conns \cap live |-> n.conns[id]]

\* history of a callback: the alarm that fired (if it was one), the calls it
\* made, the alarms it registered, the connects it enqueued, what it returned
Callback(fired, pre, post, returned) ==
    [fired |-> fired, added |-> "None",
     process_message_calls |-> post.process_message_calls,
     destroy_conn_calls |-> post.destroy_conn_calls,
     peer_conn_err_events |-> post.peer_conn_err_events,
     registered |-> post.alarm_queue (-) pre.alarm_queue,
     enqueued |-> SubSeq(post.connection_queue, Len(pre.connection_queue) + 1,
                         Len(post.connection_queue)),
     returned |-> returned, broadcast |-> <<>>]

\* the pending _retry_init_client_socket alarms
RetryAlarms(n) == {a \in BagToSet(n.alarm_queue) : a.fn = "_retry_init_client_socket"}
RECURSIVE SumCopies(_, _)
SumCopies(bag, S) ==
    IF S = {} THEN 0
    ELSE LET a == CHOOSE x \in S : TRUE
         IN CopiesIn(a, bag) + SumCopies(bag, S \ {a})
CopiesOfRetryAlarms(n) == SumCopies(n.alarm_queue, RetryAlarms(n))

\* the node is within the bounds of the model
Bounded(post) ==
    /\ Len(post.connection_queue) <= MaxQueue
    /\ Len(post.disconnect_queue) <= MaxQueue
    /\ CopiesOfRetryAlarms(post) <= MaxRetryAlarms
    /\ \A id \in DOMAIN post.conns :
          /\ Len(post.conns[id].inputbuf) <= MaxInput
          /\ Len(post.conns[id].outputbuf.output_msgs) <= MaxOutput

Assign(post, callback) ==
    /\ conns' = Collect(post)
    /\ connection_pool' = post.connection_pool
    /\ connection_queue' = post.connection_queue
    /\ disconnect_queue' = post.disconnect_queue
    /\ outbound_peers' = post.outbound_peers
    /\ num_retries_by_ip' = post.num_retries_by_ip
    /\ alarm_queue' = post.alarm_queue
    /\ node_last' = callback
    /\ UNCHANGED <<schedule_pings_on_timeout, peer>>
    /\ UNCHANGED <<buffer_vars, tracker_vars, feed_vars>>
    /\ UNCHANGED tx_vars

SetNode(post, callback) == Bounded(post) /\ Assign(post, callback)

TransactionService_init ==
    /\ tx_hash_to_short_ids = EmptyDict
    /\ short_id_to_tx_hash = EmptyDict
    /\ tx_hash_to_contents = EmptyDict
    /\ tx_assignment_expire_queue = <<>>
    /\ short_ids_seen_in_block = <<>>
    /\ total_tx_contents_size = 0
    /\ total_tx_removed_by_memory_limit = 0
    /\ tx_assign_alarm_scheduled = FALSE
    /\ alarms = <<>>
    /\ now = 0
    /\ pc = "idle"
    /\ removed_tx_count = 0
    /\ raised = FALSE
    /\ last = [op |-> "init", hash |-> NoHash, removed |-> {}, dropped |-> {}]
    /\ evicted_tx_count = 0

(* NodeSpec: connecting, timing out and retrying.  A run follows the       *)
(* sockets of one peer; schedule_pings_on_timeout is as AbstractNode sets  *)
(* it.  on_connection_initialized and the byte callbacks are left to       *)
(* IoSpec: no handler of the node reads INITIALIZED or the buffers.        *)
NodeInit ==
    /\ TransactionService_init
    /\ \E remote \in Addresses : AbstractNode_init(FALSE, remote)

\* a socket the event loop accepted or connected: the operating system gives
\* it the lowest file descriptor that is not open
LowestFree(open) == CHOOSE f \in Filenos \ open : \A g \in Filenos \ open : f <= g
OpenFilenos == DOMAIN connection_pool \cup SeqToSet(disconnect_queue)

ConnectionAdded(fileno, ip_port, from_me, built) ==
    LET post == on_connection_added(Node, fileno, ip_port, from_me, built)
    IN SetNode(post, [Callback(NoAlarm, Node, post, <<>>) EXCEPT !.added =
                          IF connection_exists(Node, ip_port) THEN "duplicate"
                          ELSE IF built THEN "built" ELSE "not_built"])
OnConnectionAdded ==
    \E ip_port \in {peer}, from_me \in BOOLEAN, built \in BOOLEAN :
        /\ Filenos \ OpenFilenos # {}
        /\ Cardinality(DOMAIN conns) < MaxConns
        /\ ConnectionAdded(LowestFree(OpenFilenos), ip_port, from_me, built)

ConnectionInitialized(fileno) ==
    LET post == on_connection_initialized(Node, fileno)
    IN SetNode(post, Callback(NoAlarm, Node, post, <<>>))
OnConnectionInitialized == \E fileno \in Filenos : ConnectionInitialized(fileno)

OnConnectionClosed ==
    \E fileno \in Filenos :
        LET post == on_connection_closed(Node, fileno)
        IN SetNode(post, Callback(NoAlarm, Node, post, <<>>))

OnUpdatedPeers ==
    \E outbound_peer_models \in {<<>>, <<peer>>} :
        LET post == on_updated_peers(Node, opts_outbound_peers, outbound_peer_models)
        IN SetNode(post, Callback(NoAlarm, Node, post, <<>>))

BytesReceived(fileno, marks) ==
    LET post == on_bytes_received(Node, fileno, <<"b">>, marks)
    IN SetNode(post, Callback(NoAlarm, Node, post, <<>>))
OnBytesReceived == \E fileno \in Filenos, marks \in BOOLEAN : BytesReceived(fileno, marks)

Outcomes == {"none", "established", "mark_for_close"}
FinishedReceiving(fileno, outcome) ==
    LET post == on_finished_receiving(Node, fileno, outcome)
    IN SetNode(post, Callback(NoAlarm, Node, post, <<>>))
OnFinishedReceiving ==
    \E fileno \in Filenos, outcome \in Outcomes : FinishedReceiving(fileno, outcome)

BytesToSend(fileno) ==
    SetNode(Node, Callback(NoAlarm, Node, Node, get_bytes_to_send(Node, fileno)))
GetBytesToSend == \E fileno \in Filenos : BytesToSend(fileno)

\* the socket wrote bytes_sent of the bytes get_bytes_to_send can hand out
BytesSent(fileno, bytes_sent) ==
    /\ fileno \in DOMAIN connection_pool =>
          bytes_sent <= Len(get_buffer(conns[connection_pool[fileno]]))
    /\ LET post == on_bytes_sent(Node, fileno, bytes_sent)
       IN SetNode(post, Callback(NoAlarm, Node, post, <<>>))
OnBytesSent == \E fileno \in Filenos, bytes_sent \in 1..MsgLen : BytesSent(fileno, bytes_sent)

PopNextConnectionAddress ==
    /\ connection_queue # <<>>
    /\ LET post == [Node EXCEPT !.connection_queue = Tail(@)]
       IN SetNode(post, Callback(NoAlarm, post, post, <<Head(connection_queue)>>))

PopNextDisconnectConnection ==
    /\ disconnect_queue # <<>>
    /\ LET post == [Node EXCEPT !.disconnect_queue = Tail(@)]
       IN SetNode(post, Callback(NoAlarm, Node, post, <<Head(disconnect_queue)>>))

\* the connection type lists and network numbers broadcast is called with
ConnectionTypeLists ==
    {NoConnectionTypes, <<RELAY_ALL>>, <<RELAY_TRANSACTION, RELAY_BLOCK>>,
     <<BLOCKCHAIN_NODE>>, <<RELAY_BLOCK, BLOCKCHAIN_NODE, SDN>>, <<>>}
OTHER_NETWORK_NUM == 8
NetworkNums == {NoNetworkNum, ALL_NETWORK_NUM, network_num, OTHER_NETWORK_NUM}

Broadcast(broadcasting_conn, prepend_to_queue, broadcast_network_num, connection_types, exclude_relays) ==
    LET r == broadcast(Node, "msg", broadcasting_conn, prepend_to_queue,
                       broadcast_network_num, connection_types, exclude_relays)
    IN SetNode(r.node, [Callback(NoAlarm, Node, r.node, r.result) EXCEPT !.broadcast =
                           <<[broadcasting_conn |-> broadcasting_conn,
                              prepend_to_queue |-> prepend_to_queue,
                              network_num |-> broadcast_network_num,
                              connection_types |-> connection_types,
                              exclude_relays |-> exclude_relays]>>])

BroadcastMsg ==
    \E broadcasting_conn \in PooledConns(Node) \cup {NoConn}, prepend_to_queue \in BOOLEAN,
       broadcast_network_num \in NetworkNums, connection_types \in ConnectionTypeLists,
       exclude_relays \in BOOLEAN :
        Broadcast(broadcasting_conn, prepend_to_queue, broadcast_network_num,
                  connection_types, exclude_relays)

\* AlarmQueue.fire_ready_alarms: the alarm leaves the queue, its callback
\* runs, and a positive return value re-registers it
AfterFire(n, alarm, result) == IF result > 0 THEN register_alarm(n, alarm) ELSE n

ConnectionTimeout ==
    \E alarm \in BagToSet(alarm_queue) :
        /\ alarm.fn = "_connection_timeout"
        /\ LET pre == cancel_alarm(Node, alarm)
               fired == [pre EXCEPT !.conns[alarm.conn].timeouts = @ + 1]
               r == connection_timeout(fired, alarm.conn, schedule_pings_on_timeout)
               post == AfterFire(r.node, alarm, r.result)
           IN SetNode(post, Callback(alarm, pre, post, <<r.result>>))

RetryInitClientSocket ==
    \E alarm \in BagToSet(alarm_queue) :
        /\ alarm.fn = "_retry_init_client_socket"
        /\ num_retries_by_ip[alarm.ip_port] < MaxRetries
        /\ LET pre == cancel_alarm(Node, alarm)
               post == retry_init_client_socket(pre, alarm.ip_port, alarm.connection_type)
           IN SetNode(post, Callback(alarm, pre, post, <<0>>))

NodeNext ==
    \/ OnConnectionAdded
    \/ OnConnectionClosed
    \/ OnUpdatedPeers
    \/ OnFinishedReceiving
    \/ PopNextConnectionAddress
    \/ PopNextDisconnectConnection
    \/ ConnectionTimeout
    \/ RetryInitClientSocket

NodeSpec == NodeInit /\ [][NodeNext]_vars

(* IoSpec: the byte callbacks and the timeout on the one connection of a   *)
(* pool.  The pool at the start is one that on_connection_added,           *)
(* on_connection_initialized, a handshake, broadcasts, writes of the       *)
(* socket and the timeout alarm leave.                                     *)
Constructed ==
    [conns |-> EmptyDict, connection_pool |-> EmptyDict, connection_queue |-> <<>>,
     disconnect_queue |-> <<>>, outbound_peers |-> opts_outbound_peers,
     num_retries_by_ip |-> [a \in Addresses |-> 0], alarm_queue |-> EmptyBag,
     process_message_calls |-> 0, destroy_conn_calls |-> <<>>,
     peer_conn_err_events |-> 0]

Stages == {"added", "initialized", "established", "timed_out", "marked"}
\* what is left in the output buffer of an established connection that was
\* broadcast msgs messages and whose socket wrote sent bytes
Queues == {q \in [msgs : 0..MaxOutput, sent : 0..(MsgLen - 1)] : q.msgs = 0 => q.sent = 0}
RECURSIVE Broadcasts(_, _, _)
Broadcasts(n, conn, msgs) ==
    IF msgs = 0 THEN n
    ELSE Broadcasts(broadcast(n, "msg", NoConn, FALSE, n.conns[conn].network_num,
                              <<n.conns[conn].CONNECTION_TYPE>>, FALSE).node,
                    conn, msgs - 1)
\* a connection to ip_port on fileno, brought to a stage of its life
Connected(n, fileno, ip_port, stage, queue, pings) ==
    LET n1 == on_connection_added(n, fileno, ip_port, TRUE, TRUE)
        id == get_by_fileno(n1, fileno)
        n2 == on_connection_initialized(n1, fileno)
        n3 == on_finished_receiving(n2, fileno, "established")
        n4 == Broadcasts(n3, id, queue.msgs)
        n5 == IF queue.sent > 0 THEN on_bytes_sent(n4, fileno, queue.sent) ELSE n4
        n6 == [cancel_alarm(n5, TimeoutAlarm(id)) EXCEPT !.conns[id].timeouts = 1]
        staged == CASE stage = "added" -> n1
                    [] stage = "initialized" -> n2
                    [] stage = "established" -> n5
                    [] stage = "timed_out" -> connection_timeout(n6, id, pings).node
                    [] OTHER -> on_finished_receiving(n5, fileno, "mark_for_close")
    IN [staged EXCEPT !.process_message_calls = 0]
\* the stages and output buffers a connection is drawn from
Lives == {l \in [stage : Stages, queue : Queues] :
             l.stage \in {"added", "initialized"} => l.queue.msgs = 0}

\* the state of a node whose pool is n's
Pooled(n, pings) ==
    /\ Components_init
    /\ conns = n.conns
    /\ connection_pool = n.connection_pool
    /\ connection_queue = <<>>
    /\ disconnect_queue = <<>>
    /\ outbound_peers = opts_outbound_peers
    /\ num_retries_by_ip = [a \in Addresses |-> 0]
    /\ alarm_queue = n.alarm_queue
    /\ schedule_pings_on_timeout = pings
    /\ peer = NoAddress
    /\ node_last = NoCallback

IoInit ==
    /\ TransactionService_init
    /\ \E pings \in BOOLEAN, ip_port \in Addresses, life \in Lives :
          /\ life.stage # "marked"
          /\ Pooled(Connected(Constructed, 5, ip_port, life.stage, life.queue, pings), pings)

IoNext ==
    \/ OnConnectionInitialized
    \/ OnBytesReceived
    \/ OnFinishedReceiving
    \/ GetBytesToSend
    \/ OnBytesSent
    \/ ConnectionTimeout
    \/ PopNextDisconnectConnection

IoSpec == IoInit /\ [][IoNext]_vars

(* IoLiveSpec: IoSpec, in which the socket layer never reports the         *)
(* connection closed, with what the event loop guarantees: pending alarms  *)
(* fire and the disconnect queue is drained.  get_bytes_to_send, which     *)
(* reads the output buffer and changes nothing of the node, is left out.   *)
IoLiveNext ==
    \/ OnConnectionInitialized
    \/ OnBytesReceived
    \/ OnFinishedReceiving
    \/ OnBytesSent
    \/ ConnectionTimeout
    \/ PopNextDisconnectConnection

IoLiveSpec ==
    /\ IoInit
    /\ [][IoLiveNext]_vars
    /\ WF_vars(ConnectionTimeout)
    /\ WF_vars(PopNextDisconnectConnection)

(* BroadcastSpec: one call of broadcast on a pool of two connections, each *)
(* at a stage of its life.                                                 *)
BroadcastPeers == {<<RELAY_ADDRESS, BLOCKCHAIN_ADDRESS>>, <<RELAY_ADDRESS, SDN_ADDRESS>>,
                   <<BLOCKCHAIN_ADDRESS, SDN_ADDRESS>>}

BroadcastInit ==
    /\ TransactionService_init
    /\ \E peers \in BroadcastPeers, lives \in [1..2 -> Lives] :
          /\ \A i \in 1..2 : lives[i].stage # "timed_out"
          /\ Pooled(Connected(Connected(Constructed, 5, peers[1], lives[1].stage,
                                        lives[1].queue, FALSE),
                              6, peers[2], lives[2].stage, lives[2].queue, FALSE), FALSE)

BroadcastNext == node_last = NoCallback /\ BroadcastMsg

BroadcastSpec == BroadcastInit /\ [][BroadcastNext]_vars

(* CloseSpec: one call of close on a pool of two connections. *)
\* the orders in which ConnectionPool.items() can yield the connections
Items(n) == {items \in [1..Cardinality(PooledConns(n)) -> PooledConns(n)] :
                 SeqToSet(items) = PooledConns(n)}

Closing(items) ==
    LET post == close(Node, items)
    IN Assign(post, Callback(NoAlarm, Node, post, <<>>))
Close == \E items \in Items(Node) : Closing(items)

CloseNext == node_last = NoCallback /\ Close

CloseSpec == BroadcastInit /\ [][CloseNext]_vars

(* PeersSpec: one call of on_updated_peers on a node with drawn command-  *)
(* line peers, outbound peers and pooled connections.                      *)
\* the lists of up to k different peers
PeerLists(k) ==
    {l \in UNION {[1..len -> Addresses] : len \in 0..k} :
        \A i, j \in DOMAIN l : i # j => l[i] # l[j]}
\* the lists of different peers
AllPeerLists == PeerLists(Cardinality(Addresses))

\* the node after connecting to the peers of pooled
PoolOf(pooled) ==
    LET idle == [msgs |-> 0, sent |-> 0]
        first == IF Len(pooled) >= 1
                 THEN Connected(Constructed, 5, pooled[1], "established", idle, FALSE)
                 ELSE Constructed
    IN IF Len(pooled) >= 2 THEN Connected(first, 6, pooled[2], "established", idle, FALSE)
       ELSE first

PeersInit ==
    /\ TransactionService_init
    /\ Components_init
    /\ \E pooled \in PeerLists(MaxConns), old_peers \in AllPeerLists :
          LET n == PoolOf(pooled)
          IN /\ conns = n.conns
             /\ connection_pool = n.connection_pool
             /\ alarm_queue = n.alarm_queue
             /\ outbound_peers = old_peers
    /\ connection_queue = <<>>
    /\ disconnect_queue = <<>>
    /\ num_retries_by_ip = [a \in Addresses |-> 0]
    /\ schedule_pings_on_timeout = FALSE
    /\ peer = NoAddress
    /\ node_last = NoCallback

UpdatingPeers(fixed_peers, outbound_peer_models) ==
    LET post == on_updated_peers(Node, fixed_peers, outbound_peer_models)
    IN Assign(post, [Callback(NoAlarm, Node, post, <<>>) EXCEPT !.added = "updated"])

\* outbound_peers starts as opts.outbound_peers and becomes the non-empty
\* list of an update
PeersNext ==
    /\ node_last = NoCallback
    /\ \E fixed_peers \in AllPeerLists, outbound_peer_models \in AllPeerLists :
          /\ outbound_peers = <<>> => fixed_peers = <<>>
          /\ UpdatingPeers(fixed_peers, outbound_peer_models)

PeersSpec == PeersInit /\ [][PeersNext]_vars

(* ReceiveSpec: chunks of bytes arrive for a pooled connection at a drawn  *)
(* stage, and for a fileno that is not pooled.                             *)
MaxReceived == 3
Chunks == {<<"a">>, <<"b", "c">>}

ReceiveInit ==
    /\ TransactionService_init
    /\ \E ip_port \in Addresses, life \in Lives :
          /\ life.stage # "timed_out"
          /\ Pooled(Connected(Constructed, 5, ip_port, life.stage, life.queue, FALSE), FALSE)

Receiving(fileno, bytes_received, marks) ==
    LET post == on_bytes_received(Node, fileno, bytes_received, marks)
    IN /\ \A id \in DOMAIN post.conns : Len(post.conns[id].inputbuf) <= MaxReceived
       /\ Assign(post, Callback(NoAlarm, Node, post, <<>>))

ReceiveNext ==
    \E fileno \in Filenos, bytes_received \in Chunks, marks \in BOOLEAN :
        Receiving(fileno, bytes_received, marks)

ReceiveSpec == ReceiveInit /\ [][ReceiveNext]_vars

(* DestroySpec: the callbacks that destroy connections, in any order, on a *)
(* pool of two connections whose timeout alarms are pending.               *)
DestroyInit ==
    /\ TransactionService_init
    /\ \E stages \in [1..2 -> Stages \ {"timed_out"}] :
          LET idle == [msgs |-> 0, sent |-> 0]
          IN Pooled(Connected(Connected(Constructed, 5, RELAY_ADDRESS, stages[1], idle, FALSE),
                              6, BLOCKCHAIN_ADDRESS, stages[2], idle, FALSE), FALSE)

\* the SDN sends a list of one outbound peer
UpdatedPeers(outbound_peer_models) ==
    LET post == on_updated_peers(Node, opts_outbound_peers, outbound_peer_models)
    IN SetNode(post, [Callback(NoAlarm, Node, post, <<>>) EXCEPT !.added = "updated"])

DestroyNext ==
    \/ OnBytesReceived
    \/ OnConnectionClosed
    \/ ConnectionTimeout
    \/ \E outbound_peer_models \in PeerLists(1) \ {<<>>} : UpdatedPeers(outbound_peer_models)
    \/ Close
    \/ PopNextConnectionAddress
    \/ PopNextDisconnectConnection

DestroySpec == DestroyInit /\ [][DestroyNext]_vars

(* QueueSpec: the request queues under any interleaving of enqueues and    *)
(* pops, a pop of an empty queue included.                                  *)
MaxRequests == 3

QueueStep(post, returned) ==
    /\ Len(post.connection_queue) <= MaxRequests
    /\ Len(post.disconnect_queue) <= MaxRequests
    /\ Assign(post, Callback(NoAlarm, Node, post, returned))

EnqueueConnection(ip_port) == QueueStep(enqueue_connection(Node, ip_port), <<>>)
EnqueueDisconnect(fileno) == QueueStep(enqueue_disconnect(Node, fileno), <<>>)
PopConnectionAddress ==
    LET r == pop_next_connection_address(Node)
    IN QueueStep(r.node, <<[address |-> r.result]>>)
PopDisconnectConnection ==
    LET r == pop_next_disconnect_connection(Node)
    IN QueueStep(r.node, <<[fileno |-> r.result]>>)

QueueNext ==
    \/ \E ip_port \in Addresses : EnqueueConnection(ip_port)
    \/ \E fileno \in Filenos : EnqueueDisconnect(fileno)
    \/ PopConnectionAddress
    \/ PopDisconnectConnection

QueueSpec == NodeInit /\ [][QueueNext]_vars

(* SleepSpec: get_sleep_timeout between the iterations of the event loop, *)
(* with alarms of any callback in the node's AlarmQueue (alarms holds     *)
(* their fire times), time passing and requests coming and going.          *)
MaxClock == 3
MaxAlarms == 2
MaxDelay == 2
DEFAULT_SLEEP_TIMEOUT == 2

Min(S) == CHOOSE x \in S : \A y \in S : x <= y

\* AlarmQueue.time_to_next_alarm at time t: negative when the head is overdue
time_to_next_alarm(a, t) ==
    IF a = <<>> THEN [has_alarm |-> FALSE, seconds_until |-> -1]
    ELSE [has_alarm |-> TRUE, seconds_until |-> Min(SeqToSet(a)) - t]

\* AlarmQueue.fire_ready_alarms at time t, every callback returning
\* next_delay (0 is CANCEL_ALARMS): the alarms left and the time to the next
fire_ready_alarms(a, t, next_delay) ==
    LET kept == SelectSeq(a, LAMBDA fire_time : fire_time > t)
        fired == Len(a) - Len(kept)
        again == IF next_delay > CANCEL_ALARMS THEN [i \in 1..fired |-> t + next_delay]
                 ELSE <<>>
        left == kept \o again
    IN [alarms |-> left,
        result |-> IF left = <<>> THEN DEFAULT_SLEEP_TIMEOUT
                   ELSE Min(SeqToSet(left)) - t]

\* get_sleep_timeout of node n with alarm queue a at time t: the alarm queue
\* afterwards and the timeout returned
get_sleep_timeout(n, a, t, first_call, next_delay) ==
    IF first_call
    THEN LET timeout == time_to_next_alarm(a, t).seconds_until
         IN [alarms |-> a,
             result |-> IF timeout < 0 THEN DEFAULT_SLEEP_TIMEOUT ELSE timeout]
    ELSE LET r == fire_ready_alarms(a, t, next_delay)
         IN [alarms |-> r.alarms,
             result |-> IF n.connection_queue # <<>> \/ n.disconnect_queue # <<>>
                        THEN DEFAULT_SLEEP_TIMEOUT
                        ELSE r.result]

sleep_unchanged == <<tx_hash_to_short_ids, short_id_to_tx_hash, tx_hash_to_contents,
                     tx_assignment_expire_queue, short_ids_seen_in_block,
                     total_tx_contents_size, total_tx_removed_by_memory_limit,
                     tx_assign_alarm_scheduled, pc, removed_tx_count,
                     raised, last, evicted_tx_count, conns, connection_pool,
                     connection_queue, disconnect_queue, outbound_peers,
                     num_retries_by_ip, alarm_queue, schedule_pings_on_timeout, peer,
                     buffer_vars, tracker_vars, feed_vars>>

\* time.time() advances while the loop sleeps
SleepTick ==
    /\ now < MaxClock
    /\ now' = now + 1
    /\ UNCHANGED <<alarms, node_last>>
    /\ UNCHANGED sleep_unchanged

\* some component registers an alarm
RegisterAlarm ==
    \E delay \in 0..MaxDelay :
        /\ Len(alarms) < MaxAlarms
        /\ alarms' = AlarmQueue_register_alarm(alarms, now, delay)
        /\ UNCHANGED <<now, node_last>>
        /\ UNCHANGED sleep_unchanged

SleepTimeout(first_call, next_delay) ==
    LET r == get_sleep_timeout(Node, alarms, now, first_call, next_delay)
    IN /\ Len(r.alarms) <= MaxAlarms
       /\ alarms' = r.alarms
       /\ node_last' = [NoCallback EXCEPT !.returned = <<[timeout |-> r.result]>>]
       /\ UNCHANGED now
       /\ UNCHANGED sleep_unchanged
GetSleepTimeout ==
    \E first_call \in BOOLEAN, next_delay \in 0..MaxDelay : SleepTimeout(first_call, next_delay)

SleepNext ==
    \/ SleepTick
    \/ RegisterAlarm
    \/ GetSleepTimeout
    \/ connection_queue = <<>> /\ EnqueueConnection(RELAY_ADDRESS)
    \/ disconnect_queue = <<>> /\ EnqueueDisconnect(5)
    \/ PopConnectionAddress
    \/ PopDisconnectConnection

SleepSpec == NodeInit /\ [][SleepNext]_vars

(* BufferSpec: an output buffer under any interleaving of enqueue_msgbytes, *)
(* get_buffer and advance_buffer; PrependSpec adds prepend_msg.             *)
MaxSlices == 3
MaxSliceLen == 2
MaxBytes == 5

\* the bytes of the k-th slice handed to the buffer
Slice(k, len) == [i \in 1..len |-> <<k, i>>]
buffer_unchanged == <<tx_vars, runtime_vars, tracker_vars, feed_vars>>

BufferCall(op, arg, post, failed, returned) ==
    /\ out_buf' = post
    /\ out_last' = [out_last EXCEPT !.op = op, !.arg = arg, !.before = out_buf,
                                     !.raised = failed, !.returned = returned]
    /\ UNCHANGED buffer_unchanged

EnqueueMsgbytes(len) ==
    /\ Len(out_buf.output_msgs) < MaxSlices
    /\ Len(out_last.enqueued) + len <= MaxBytes
    /\ LET msg_bytes == Slice(Len(out_last.enqueued) + 1, len)
       IN /\ out_buf' = enqueue_msgbytes(out_buf, msg_bytes)
          /\ out_last' = [out_last EXCEPT !.op = "enqueue_msgbytes", !.arg = len,
                                           !.before = out_buf, !.raised = FALSE,
                                           !.returned = <<>>,
                                           !.enqueued = @ \o msg_bytes]
          /\ UNCHANGED buffer_unchanged

GetBuffer ==
    LET r == OutputBuffer_get_buffer(out_buf)
    IN BufferCall("get_buffer", 0, out_buf, r.raised, r.result)

AdvanceBuffer(num_bytes, beyond) ==
    LET r == advance_buffer(out_buf, num_bytes, beyond)
        handed == OutputBuffer_get_buffer(out_buf).result
    IN /\ out_buf' = r.buf
       /\ out_last' = [out_last EXCEPT !.op = "advance_buffer", !.arg = num_bytes,
                                        !.before = out_buf, !.raised = r.raised,
                                        !.returned = <<>>,
                                        !.advanced = IF r.raised THEN @ ELSE @ + num_bytes,
                                        !.beyond_head = @ \/ (num_bytes <= out_buf.length
                                                              /\ num_bytes > Len(handed))]
       /\ UNCHANGED buffer_unchanged

BufferNext ==
    \/ \E len \in 1..MaxSliceLen : EnqueueMsgbytes(len)
    \/ GetBuffer
    \/ \E num_bytes \in 1..(out_buf.length + 1), beyond \in {"raise", "pop"} :
          AdvanceBuffer(num_bytes, beyond)

BufferSpec == NodeInit /\ [][BufferNext]_vars

\* enqueued also records the bytes of the prepended slices, in call order
PrependMsg(len) ==
    /\ Len(out_buf.output_msgs) < MaxSlices
    /\ Len(out_last.enqueued) + len <= MaxBytes
    /\ LET msg_bytes == Slice(Len(out_last.enqueued) + 1, len)
       IN /\ out_buf' = prepend_msg(out_buf, msg_bytes)
          /\ out_last' = [out_last EXCEPT !.op = "prepend_msg", !.arg = len,
                                           !.before = out_buf, !.raised = FALSE,
                                           !.returned = <<>>,
                                           !.enqueued = @ \o msg_bytes]
          /\ UNCHANGED buffer_unchanged

PrependNext ==
    \/ BufferNext
    \/ \E len \in 1..MaxSliceLen : PrependMsg(len)

PrependSpec == NodeInit /\ [][PrependNext]_vars

(* TrackerSpec: a message tracker under any interleaving of its methods *)
MaxTracked == 3

tracker_unchanged == <<tx_vars, runtime_vars, buffer_vars, feed_vars>>

TrackerCall(op, r) ==
    /\ Len(r.messages) <= MaxTracked
    /\ messages' = r.messages
    /\ tracker_last' = [op |-> op, raised |-> r.raised, returned |-> <<>>]
    /\ UNCHANGED <<trackers, tracker_unchanged>>

AppendMessage(num_bytes, message) ==
    TrackerCall("append_message", append_message(messages, num_bytes, message))
PrependMessage(num_bytes, message) ==
    TrackerCall("prepend_message", prepend_message(messages, num_bytes, message))
AdvanceBytes(num_bytes) ==
    TrackerCall("advance_bytes", advance_bytes(messages, num_bytes))

TrackerNext ==
    \/ \E num_bytes \in 1..2, message \in TrackedMessages : AppendMessage(num_bytes, message)
    \/ \E num_bytes \in 1..2, message \in TrackedMessages : PrependMessage(num_bytes, message)
    \/ \E num_bytes \in 1..3 : AdvanceBytes(num_bytes)

TrackerSpec == NodeInit /\ [][TrackerNext]_vars

(* ExpirySpec: short ids are assigned and contents set until LastInput,    *)
(* and time.time() advances far enough for the expiry alarm to fire, to    *)
(* reschedule itself and to cancel itself.  The event loop guarantees that *)
(* time advances, that ready alarms fire and that the clean up loop takes  *)
(* its next step.                                                          *)
LastInput == 1

ExpiryTick ==
    /\ pc = "idle"
    /\ now < MaxClock
    /\ now' = now + 1
    /\ UNCHANGED <<tx_hash_to_short_ids, short_id_to_tx_hash, tx_hash_to_contents,
                   tx_assignment_expire_queue, short_ids_seen_in_block,
                   total_tx_contents_size, total_tx_removed_by_memory_limit,
                   tx_assign_alarm_scheduled, alarms, pc, removed_tx_count,
                   raised, last, evicted_tx_count>>
    /\ UNCHANGED node_vars

ExpiryNext ==
    \/ ExpiryTick
    \/ now <= LastInput /\ SetTransactionContents
    \/ MemoryLimitCleanUpIteration
    \/ MemoryLimitCleanUpReturn
    \/ now <= LastInput /\ AssignShortId
    \/ ExpireOldAssignments

\* an expire_old_assignments alarm is ready: ExpireOldAssignments is enabled
AlarmReady == pc = "idle" /\ \E i \in 1..Len(alarms) : alarms[i] <= now

\* the third conjunct is WF_vars(ExpireOldAssignments) with AlarmReady for
\* ENABLED <<ExpireOldAssignments>>_vars
ExpirySpec ==
    /\ TxInit
    /\ [][ExpiryNext]_vars
    /\ WF_vars(ExpiryTick)
    /\ ([]<>(~AlarmReady) \/ []<><<ExpireOldAssignments>>_vars)
    /\ WF_vars(MemoryLimitCleanUpIteration)
    /\ WF_vars(MemoryLimitCleanUpReturn)

(* AccountSpec: append_message and advance_bytes in any order, with the    *)
(* bytes advanced never more than the bytes appended.  tracker_last keeps  *)
(* the entries appended, the bytes advanced, the arguments of the call and *)
(* the deque before it.                                                    *)
MaxAppended == 3
RECURSIVE SumOfUnsent(_)
SumOfUnsent(tracked) ==
    IF tracked = <<>> THEN 0
    ELSE tracked[1].length - tracked[1].sent_bytes + SumOfUnsent(Tail(tracked))
Appended == IF tracker_last.op = "init" THEN <<>> ELSE tracker_last.appended
Advanced == IF tracker_last.op = "init" THEN 0 ELSE tracker_last.advanced

AccountCall(op, num_bytes, message, r, appended, advanced) ==
    /\ messages' = r.messages
    /\ tracker_last' = [op |-> op, raised |-> r.raised, returned |-> <<>>,
                        num_bytes |-> num_bytes, message |-> message,
                        appended |-> appended, advanced |-> advanced, before |-> messages]
    /\ UNCHANGED <<trackers, tracker_unchanged>>

AccountAppend(num_bytes, message) ==
    LET r == append_message(messages, num_bytes, message)
    IN /\ Len(Appended) < MaxAppended
       /\ AccountCall("append_message", num_bytes, message, r,
                      IF r.raised THEN Appended
                      ELSE Append(Appended, MessageTrackerEntry(message, num_bytes)),
                      Advanced)

AccountAdvance(num_bytes) ==
    /\ Advanced + num_bytes <= SumOfUnsent(Appended)
    /\ AccountCall("advance_bytes", num_bytes, NoMessage, advance_bytes(messages, num_bytes),
                   Appended, Advanced + num_bytes)

AccountNext ==
    \/ \E num_bytes \in 1..2, message \in TrackedMessages : AccountAppend(num_bytes, message)
    \/ \E num_bytes \in 1..(2 * MaxAppended) : AccountAdvance(num_bytes)

AccountSpec == NodeInit /\ [][AccountNext]_vars

(* MirrorSpec: a connection hands every operation on its output buffer to  *)
(* its message tracker as well: enqueue_msgbytes with append_message,      *)
(* prepend_msg with prepend_message, advance_buffer with advance_bytes.    *)
(* The socket sends no more than get_buffer handed it.                     *)
mirror_unchanged == <<tx_vars, runtime_vars, feed_vars>>

\* the messages whose rawbytes() are len bytes long, and None
MessagesOfLen(len) == {m \in TrackedMessages : m = NoMessage \/ RawBytesLen(m) = len}

MirrorCall(op, buf, r) ==
    /\ out_buf' = buf
    /\ out_last' = [NoBufferCall EXCEPT !.op = op]
    /\ messages' = r.messages
    /\ tracker_last' = [op |-> op, raised |-> r.raised, returned |-> <<>>]
    /\ UNCHANGED <<trackers, mirror_unchanged>>

MirrorEnqueue(len, message) ==
    /\ Len(out_buf.output_msgs) < MaxSlices
    /\ MirrorCall("enqueue", enqueue_msgbytes(out_buf, Slice(1, len)),
                  append_message(messages, len, message))

MirrorPrepend(len, message) ==
    /\ Len(out_buf.output_msgs) < MaxSlices
    /\ MirrorCall("prepend", prepend_msg(out_buf, Slice(1, len)),
                  prepend_message(messages, len, message))

MirrorAdvance(num_bytes) ==
    /\ num_bytes <= Len(OutputBuffer_get_buffer(out_buf).result)
    /\ MirrorCall("advance", advance_buffer(out_buf, num_bytes, "raise").buf,
                  advance_bytes(messages, num_bytes))

MirrorNext ==
    \/ \E len \in 1..MaxSliceLen : \E message \in MessagesOfLen(len) : MirrorEnqueue(len, message)
    \/ \E len \in 1..MaxSliceLen : \E message \in MessagesOfLen(len) : MirrorPrepend(len, message)
    \/ \E num_bytes \in 1..MaxSliceLen : MirrorAdvance(num_bytes)

MirrorSpec == NodeInit /\ [][MirrorNext]_vars

(* IsolationSpec: connections get a MessageTracker each and call the       *)
(* methods of their own tracker.                                           *)
NewTracker(connection) ==
    /\ connection \notin DOMAIN trackers
    /\ trackers' = DictSet(trackers, connection, MessageTracker_init(connection))
    /\ tracker_last' = [op |-> "__init__", raised |-> FALSE, returned |-> <<>>,
                        self |-> connection]
    /\ UNCHANGED <<messages, tracker_unchanged>>

\* a method of the tracker of connection self: the deque it mutates is the
\* one self.messages names
IsolatedCall(self, op, r) ==
    /\ self \in DOMAIN trackers
    /\ Len(r.messages) <= MaxTracked
    /\ IF "messages" \in DOMAIN trackers[self]
       THEN /\ trackers' = [trackers EXCEPT ![self].messages = r.messages]
            /\ UNCHANGED messages
       ELSE /\ messages' = r.messages
            /\ UNCHANGED trackers
    /\ tracker_last' = [op |-> op, raised |-> r.raised, returned |-> <<>>, self |-> self]
    /\ UNCHANGED tracker_unchanged

IsolatedAppend(self, num_bytes, message) ==
    IsolatedCall(self, "append_message",
                 append_message(getattr_messages(trackers[self], messages), num_bytes, message))
IsolatedPrepend(self, num_bytes, message) ==
    IsolatedCall(self, "prepend_message",
                 prepend_message(getattr_messages(trackers[self], messages), num_bytes, message))
IsolatedAdvance(self, num_bytes) ==
    IsolatedCall(self, "advance_bytes",
                 advance_bytes(getattr_messages(trackers[self], messages), num_bytes))

IsolationNext ==
    \/ \E connection \in 1..MaxConns : NewTracker(connection)
    \/ \E self \in DOMAIN trackers, num_bytes \in 1..2, message \in TrackedMessages :
          IsolatedAppend(self, num_bytes, message)
    \/ \E self \in DOMAIN trackers, num_bytes \in 1..2, message \in TrackedMessages :
          IsolatedPrepend(self, num_bytes, message)
    \/ \E self \in DOMAIN trackers, num_bytes \in 1..2 : IsolatedAdvance(self, num_bytes)

IsolationSpec == NodeInit /\ [][IsolationNext]_vars

(* FeedSpec: subscribers come and go and raw transactions are published *)
MaxSubscribers == 2
SubscriptionIds == 1..MaxSubscribers

RawMessages ==
    {[tx_hash |-> "h", local_region |-> TRUE, source |-> source,
      tx_contents |-> [value |-> value, to |-> to, from |-> "0xdef", gas_price |-> 1,
                       input |-> "0x"]] :
        source \in FeedSources, value \in RawValues, to \in RawAddresses}

feed_unchanged == <<tx_vars, runtime_vars, buffer_vars, tracker_vars>>

Subscribe ==
    \E id \in SubscriptionIds \ DOMAIN subscribers, option \in IncludeOptions,
       filters \in Filters :
        /\ subscribers' = DictSet(subscribers, id,
                                  [options |-> [include_from_blockchain |-> option],
                                   filters |-> filters])
        /\ feed_last' = [NoCall EXCEPT !.op = "subscribe"]
        /\ UNCHANGED feed_unchanged

Unsubscribe ==
    \E id \in DOMAIN subscribers :
        /\ subscribers' = DictDel(subscribers, id)
        /\ feed_last' = [NoCall EXCEPT !.op = "unsubscribe"]
        /\ UNCHANGED feed_unchanged

Publishing(raw_message) ==
    LET r == publish(subscribers, raw_message)
    IN /\ feed_last' = [op |-> "publish", raised |-> FALSE,
                        returned |-> <<[serialized |-> r.serialized,
                                        delivered |-> r.delivered]>>]
       /\ UNCHANGED subscribers
       /\ UNCHANGED feed_unchanged
Publish == \E raw_message \in RawMessages : Publishing(raw_message)

FeedNext == Subscribe \/ Unsubscribe \/ Publish

FeedSpec == NodeInit /\ [][FeedNext]_vars

----------------------------------------------------------------------------
(* Properties of the node *)

\* the pooled connection on fileno has MARK_FOR_CLOSE set
Marked(fileno) ==
    /\ fileno \in DOMAIN connection_pool
    /\ Truthy(BitAnd(conns[connection_pool[fileno]].state, MARK_FOR_CLOSE))

\* one of the four input callbacks runs for fileno
InputCallback(fileno) ==
    \/ \E marks \in BOOLEAN : BytesReceived(fileno, marks)
    \/ \E outcome \in Outcomes : FinishedReceiving(fileno, outcome)
    \/ BytesToSend(fileno)
    \/ \E bytes_sent \in 1..MsgLen : BytesSent(fileno, bytes_sent)

\* the step left the buffers of the connection on fileno alone, called no
\* process_message and returned no bytes
Untouched(fileno) ==
    LET conn == connection_pool[fileno]
    IN /\ conn \in DOMAIN conns'
       /\ conns'[conn].inputbuf = conns[conn].inputbuf
       /\ conns'[conn].outputbuf = conns[conn].outputbuf
       /\ node_last'.process_message_calls = 0
       /\ node_last'.returned = <<>>

\* C11: for a connection whose state has MARK_FOR_CLOSE set, each of
\* on_bytes_received, on_finished_receiving, get_bytes_to_send and
\* on_bytes_sent is a no-op: nothing is added to its input buffer,
\* process_message is not called, no bytes are returned for sending and its
\* output buffer is not advanced.
C11_MarkForCloseNoop ==
    [][\A fileno \in Filenos :
          Marked(fileno) /\ InputCallback(fileno) => Untouched(fileno)]_vars

\* the pool holds a connection to ip_port
PooledAt(ip_port) ==
    \E fileno \in DOMAIN connection_pool : conns[connection_pool[fileno]].ip_port = ip_port

\* C12: on_connection_added for an (ip, port) that already has a pooled
\* connection leaves the pool unchanged, builds no connection, registers no
\* timeout alarm and appends the new socket's fileno to disconnect_queue; and
\* the pool never holds two connections for the same (ip, port).
C12_DuplicateConnect ==
    /\ [](\A f, g \in DOMAIN connection_pool :
             f # g => conns[connection_pool[f]].ip_port # conns[connection_pool[g]].ip_port)
    /\ [][\A fileno \in Filenos, ip_port \in Addresses, from_me \in BOOLEAN, built \in BOOLEAN :
            PooledAt(ip_port) /\ ConnectionAdded(fileno, ip_port, from_me, built) =>
                /\ connection_pool' = connection_pool
                /\ conns' = conns
                /\ alarm_queue' = alarm_queue
                /\ disconnect_queue' = Append(disconnect_queue, fileno)]_vars

\* a second socket to a pooled address was added and queued for disconnect
C12_Witness ==
    /\ node_last.added = "duplicate"
    /\ PooledAt(peer)
    /\ disconnect_queue # <<>>

\* C13: on_finished_receiving(fileno) calls no process_message for a fileno
\* not in the pool and exactly one for a pooled connection that is not
\* marked for close; if that process_message marks the connection for close,
\* destroy_conn is called once for it within the callback, otherwise
\* destroy_conn is not called.
C13_FinishedReceiving ==
    [][\A fileno \in Filenos, outcome \in Outcomes :
          FinishedReceiving(fileno, outcome) =>
              /\ fileno \notin DOMAIN connection_pool =>
                     node_last'.process_message_calls = 0
              /\ fileno \in DOMAIN connection_pool /\ ~Marked(fileno) =>
                     /\ node_last'.process_message_calls = 1
                     /\ IF outcome = "mark_for_close"
                        THEN /\ Len(node_last'.destroy_conn_calls) = 1
                             /\ node_last'.destroy_conn_calls[1][1] = connection_pool[fileno]
                        ELSE node_last'.destroy_conn_calls = <<>>]_vars

\* the step fired alarm, an alarm that was pending
Fired(alarm) ==
    /\ alarm \in BagToSet(alarm_queue)
    /\ node_last' = [node_last' EXCEPT !.fired = alarm]
    /\ \/ ConnectionTimeout
       \/ RetryInitClientSocket

\* C14: the _connection_timeout alarm of a connection fires at most once: it
\* returns CANCEL_ALARMS and is not rescheduled.  When it fires, an
\* ESTABLISHED connection is kept, with a ping alarm registered if
\* schedule_pings_on_timeout is set and no alarm otherwise; failing that, a
\* MARK_FOR_CLOSE connection is left untouched; any other connection is
\* destroyed with retry_connection = true.
C14_ConnectionTimeout ==
    /\ [](\A conn \in DOMAIN conns : conns[conn].timeouts <= 1)
    /\ [][\A conn \in DOMAIN conns :
            Fired(TimeoutAlarm(conn)) =>
                /\ node_last'.returned = <<CANCEL_ALARMS>>
                /\ TimeoutAlarm(conn) \notin BagToSet(alarm_queue')
                /\ IF Truthy(BitAnd(conns[conn].state, ESTABLISHED))
                   THEN /\ node_last'.destroy_conn_calls = <<>>
                        /\ connection_pool' = connection_pool
                        /\ node_last'.registered =
                               IF schedule_pings_on_timeout
                               THEN SetToBag({PingAlarm(conn)}) ELSE EmptyBag
                   ELSE IF Truthy(BitAnd(conns[conn].state, MARK_FOR_CLOSE))
                   THEN /\ node_last'.destroy_conn_calls = <<>>
                        /\ node_last'.registered = EmptyBag
                        /\ connection_pool' = connection_pool
                        /\ disconnect_queue' = disconnect_queue
                        /\ conn \in DOMAIN conns' =>
                               conns'[conn] = [conns[conn] EXCEPT !.timeouts = 1]
                   ELSE /\ node_last'.destroy_conn_calls = <<<<conn, TRUE>>>>
                        /\ conn \notin PooledConns(Node)']_vars

\* the timeout of a connection that was not established has fired and the
\* connection was destroyed with a retry
C14_Witness ==
    /\ node_last.fired.fn = "_connection_timeout"
    /\ node_last.destroy_conn_calls = <<<<node_last.fired.conn, TRUE>>>>
    /\ node_last.returned = <<CANCEL_ALARMS>>

\* the retry alarms among the alarms a step registered
RetryAlarmsIn(bag) == {a \in BagToSet(bag) : a.fn = "_retry_init_client_socket"}

RetryCap(alarm, events(_)) ==
    IF Truthy(BitAnd(alarm.connection_type, SDN))
    THEN /\ node_last'.enqueued = <<alarm.ip_port>>
         /\ node_last'.peer_conn_err_events = 0
    ELSE IF num_retries_by_ip[alarm.ip_port] + 1 < MAX_CONNECT_RETRIES
    THEN /\ node_last'.enqueued = <<alarm.ip_port>>
         /\ node_last'.peer_conn_err_events = 0
    ELSE /\ node_last'.enqueued = <<>>
         /\ connection_queue' = connection_queue
         /\ node_last'.peer_conn_err_events = events(alarm.connection_type)

EventForEveryType(connection_type) == 1
EventForRelays(connection_type) ==
    IF Truthy(BitAnd(connection_type, RELAY_ALL)) THEN 1 ELSE 0

RetryTimeouts == <<1, 1, 2, 3, 5, 8, 13>>
get_next_retry_timeout(retries) ==
    IF retries < Len(RetryTimeouts) THEN RetryTimeouts[retries + 1]
    ELSE RetryTimeouts[Len(RetryTimeouts)]

\* C17: the delay before the next retry of a connection to (ip, port) follows
\* the number of retries already made to that address: 1, 1, 2, 3, 5, 8, 13
\* seconds for 0 .. 6 previous retries and 13 for any larger count.
C17_RetryBackoff ==
    [][\A alarm \in RetryAlarmsIn(node_last'.registered) :
          alarm.delay = get_next_retry_timeout(num_retries_by_ip[alarm.ip_port])]_vars

\* the number of copies of msg in an output buffer
Copies(outputbuf, msg) ==
    Cardinality({i \in DOMAIN outputbuf.output_msgs : outputbuf.output_msgs[i] = msg})
\* the requested connection types that a connection matches
TypesMatched(conn, connection_types) ==
    {i \in DOMAIN connection_types :
         Truthy(BitAnd(conns[conn].CONNECTION_TYPE, connection_types[i]))}

\* C18: broadcast(msg, sender, ...) returns exactly the connections to which
\* it enqueued msg; each returned connection received exactly one copy, also
\* when it matches several of the requested connection types; the sender and
\* every connection not returned keep their output buffers.
C18_BroadcastFanOut ==
    [][node_last'.broadcast # <<>> =>
          LET args == node_last'.broadcast[1]
              returned == SeqToSet(node_last'.returned)
          IN /\ Len(node_last'.returned) = Cardinality(returned)
             /\ args.broadcasting_conn \notin returned
             /\ DOMAIN conns' = DOMAIN conns
             /\ \A conn \in DOMAIN conns :
                    IF conn \in returned
                    THEN /\ Copies(conns'[conn].outputbuf, "msg") =
                               Copies(conns[conn].outputbuf, "msg") + 1
                         /\ Len(conns'[conn].outputbuf.output_msgs) =
                               Len(conns[conn].outputbuf.output_msgs) + 1
                         /\ conns'[conn].outputbuf.index = conns[conn].outputbuf.index
                    ELSE conns'[conn].outputbuf = conns[conn].outputbuf]_vars

\* a broadcast from a pooled sender reached a connection that matches two of
\* the requested connection types
C18_Witness ==
    /\ node_last.broadcast # <<>>
    /\ node_last.broadcast[1].broadcasting_conn \in PooledConns(Node)
    /\ \E conn \in SeqToSet(node_last.returned) :
          Cardinality(TypesMatched(conn, node_last.broadcast[1].connection_types)) = 2

\* C19: a pooled connection c receives a broadcast iff c is in the union of
\* the requested connection types (RELAY_ALL when none are given), c is
\* active, c is not the sender, and c.network_num is the broadcast network
\* number (the node's own network_num when none is given) or c.network_num
\* is ALL_NETWORK_NUM and exclude_relays is false.
C19_BroadcastRecipients ==
    [][node_last'.broadcast # <<>> =>
          LET args == node_last'.broadcast[1]
              requested == IF args.connection_types = NoConnectionTypes THEN <<RELAY_ALL>>
                           ELSE args.connection_types
              net == IF args.network_num = NoNetworkNum THEN network_num
                     ELSE args.network_num
          IN \A c \in PooledConns(Node) :
                 Copies(conns'[c].outputbuf, "msg") > Copies(conns[c].outputbuf, "msg")
                 <=> /\ TypesMatched(c, requested) # {}
                     /\ Truthy(BitAnd(conns[c].state, ESTABLISHED))
                     /\ ~Truthy(BitAnd(conns[c].state, MARK_FOR_CLOSE))
                     /\ c # args.broadcasting_conn
                     /\ \/ conns[c].network_num = net
                        \/ conns[c].network_num = ALL_NETWORK_NUM /\ ~args.exclude_relays]_vars

\* a connection with the wildcard network number received a broadcast for
\* another network, and one of another network did not
C19_Witness ==
    /\ node_last.broadcast # <<>>
    /\ node_last.broadcast[1].network_num = OTHER_NETWORK_NUM
    /\ ~node_last.broadcast[1].exclude_relays
    /\ \E c \in SeqToSet(node_last.returned) : conns[c].network_num = ALL_NETWORK_NUM
    /\ \E c \in PooledConns(Node) \ SeqToSet(node_last.returned) :
          /\ conns[c].network_num = network_num
          /\ is_active(conns[c])
          /\ TypesMatched(c, node_last.broadcast[1].connection_types) # {}

\* C20: once the state of a connection has MARK_FOR_CLOSE set, no callback
\* of the node clears the bit or changes the state bits of the connection
\* again; on_connection_initialized on a live connection only adds
\* INITIALIZED, and it is a no-op for a fileno not in the pool.
C20_MarkForCloseTerminal ==
    [][/\ \A conn \in DOMAIN conns \cap DOMAIN conns' :
             Truthy(BitAnd(conns[conn].state, MARK_FOR_CLOSE)) =>
                 conns'[conn].state = conns[conn].state
       /\ \A fileno \in Filenos :
             ConnectionInitialized(fileno) =>
                 IF fileno \notin DOMAIN connection_pool
                 THEN UNCHANGED <<conns, connection_pool, connection_queue,
                                  disconnect_queue, alarm_queue>>
                 ELSE LET conn == connection_pool[fileno]
                      IN ~Marked(fileno) =>
                             conns' = [conns EXCEPT ![conn].state = @ \cup INITIALIZED]]_vars

\* C21: after close() the connection pool holds no connection, and every
\* connection that was pooled before the call is marked for close and has
\* its fileno in disconnect_queue.
C21_Close ==
    [][\A items \in Items(Node) :
          Closing(items) =>
              /\ connection_pool' = EmptyDict
              /\ \A fileno \in DOMAIN connection_pool :
                     LET conn == connection_pool[fileno]
                     IN /\ conn \in DOMAIN conns'
                        /\ Truthy(BitAnd(conns'[conn].state, MARK_FOR_CLOSE))
                        /\ fileno \in SeqToSet(disconnect_queue')]_vars

\* close has destroyed the two connections of the pool
C21_Witness ==
    /\ connection_pool = EmptyDict
    /\ Len(node_last.destroy_conn_calls) = 2
    /\ SeqToSet(disconnect_queue) = {5, 6}

\* C22: the request queues are first in, first out: an enqueue puts the
\* request behind every request already queued, a pop returns the request
\* queued the longest and keeps the order of the others, and a pop of an
\* empty queue returns None and leaves the queue empty.
C22_RequestQueuesFifo ==
    [][/\ \A ip_port \in Addresses :
            EnqueueConnection(ip_port) =>
                /\ connection_queue' = connection_queue \o <<ip_port>>
                /\ disconnect_queue' = disconnect_queue
       /\ \A fileno \in Filenos :
            EnqueueDisconnect(fileno) =>
                /\ disconnect_queue' = disconnect_queue \o <<fileno>>
                /\ connection_queue' = connection_queue
       /\ PopConnectionAddress =>
            /\ disconnect_queue' = disconnect_queue
            /\ IF connection_queue = <<>>
               THEN /\ node_last'.returned = <<[address |-> NoAddress]>>
                    /\ connection_queue' = <<>>
               ELSE \E ip_port \in Addresses :
                       /\ node_last'.returned = <<[address |-> ip_port]>>
                       /\ <<ip_port>> \o connection_queue' = connection_queue
       /\ PopDisconnectConnection =>
            /\ connection_queue' = connection_queue
            /\ IF disconnect_queue = <<>>
               THEN /\ node_last'.returned = <<[fileno |-> NoFileno]>>
                    /\ disconnect_queue' = <<>>
               ELSE \E fileno \in Filenos :
                       /\ node_last'.returned = <<[fileno |-> fileno]>>
                       /\ <<fileno>> \o disconnect_queue' = disconnect_queue]_vars

\* a pop has returned the older of two different queued addresses
C22_Witness ==
    /\ Len(connection_queue) >= 1
    /\ node_last.returned \in {<<[address |-> a]>> : a \in Addresses \ {connection_queue[1]}}

\* a pop of the empty disconnect queue has returned None
C22_WitnessEmpty ==
    /\ disconnect_queue = <<>>
    /\ node_last.returned = <<[fileno |-> NoFileno]>>

\* the timeout get_sleep_timeout has just returned
Timeout == node_last'.returned[1].timeout
RequestQueued == connection_queue # <<>> \/ disconnect_queue # <<>>

\* C23: a first call of get_sleep_timeout fires no alarm and returns the time
\* to the next alarm, or DEFAULT_SLEEP_TIMEOUT when that time is negative; any
\* other call fires the ready alarms and returns a timeout that does not
\* exceed the time until the next alarm, nor DEFAULT_SLEEP_TIMEOUT when a
\* request is queued.
C23_SleepTimeout ==
    [][\A first_call \in BOOLEAN, next_delay \in 0..MaxDelay :
          SleepTimeout(first_call, next_delay) =>
              IF first_call
              THEN /\ alarms' = alarms
                   /\ alarms # <<>> =>
                         LET seconds_until == Min(SeqToSet(alarms)) - now
                         IN Timeout = IF seconds_until < 0 THEN DEFAULT_SLEEP_TIMEOUT
                                      ELSE seconds_until
              ELSE /\ \A i \in 1..Len(alarms') : alarms'[i] > now \/ alarms'[i] = now + next_delay
                   /\ alarms' # <<>> => Timeout <= Min(SeqToSet(alarms')) - now
                   /\ RequestQueued => Timeout <= DEFAULT_SLEEP_TIMEOUT]_vars

\* the bytes of the buffer that were not handed to the kernel yet
RECURSIVE Flatten(_)
Flatten(slices) == IF slices = <<>> THEN <<>> ELSE Head(slices) \o Flatten(Tail(slices))
Unsent(buf) == LET all == Flatten(buf.output_msgs) IN SubSeq(all, buf.index + 1, Len(all))
\* the enqueued byte stream from the offset advanced so far
Remainder == SubSeq(out_last.enqueued, out_last.advanced + 1, Len(out_last.enqueued))

RoundTrip ==
    /\ out_buf.length = Len(out_last.enqueued) - out_last.advanced
    /\ Unsent(out_buf) = Remainder
    /\ out_last.op = "get_buffer" =>
          /\ out_last.raised <=> out_buf.output_msgs = <<>>
          /\ ~out_last.raised =>
                /\ out_last.returned # <<>>
                /\ out_last.returned = SubSeq(Remainder, 1, Len(out_last.returned))
                /\ Len(out_last.returned) = Len(Head(out_buf.output_msgs)) - out_buf.index
    /\ out_last.op = "advance_buffer" =>
          /\ out_last.raised <=> out_last.arg > out_last.before.length
          /\ out_last.raised => out_buf = out_last.before

C25_Prepend ==
    [][\A len \in 1..MaxSliceLen :
          PrependMsg(len) =>
              LET b == Slice(Len(out_last.enqueued) + 1, len)
                  q == out_buf.output_msgs
              IN /\ out_buf'.length = out_buf.length + Len(b)
                 /\ out_buf'.index = out_buf.index
                 /\ IF out_buf.index = 0
                    THEN out_buf'.output_msgs = <<b>> \o q
                    ELSE /\ out_buf'.output_msgs = <<Head(q), b>> \o Tail(q)
                         /\ OutputBuffer_get_buffer(out_buf') = OutputBuffer_get_buffer(out_buf)]_vars

\* a message was prepended between a partially sent head and another message
C25_Witness ==
    /\ out_last.op = "prepend_msg"
    /\ out_buf.index > 0
    /\ Len(out_buf.output_msgs) = 3

\* C26: prepend_message(n, msg) with a matching length adds exactly one entry
\* (msg, n, sent_bytes = 0): directly behind the head if the head is partially
\* sent, at the front otherwise (head not started, or tracker empty).
C26_TrackerPrepend ==
    [][\A num_bytes \in 1..2, message \in TrackedMessages :
          /\ message = NoMessage \/ num_bytes = RawBytesLen(message)
          /\ PrependMessage(num_bytes, message)
          => LET entry == [message |-> message, length |-> num_bytes, sent_bytes |-> 0]
             IN IF messages # <<>> /\ messages[1].sent_bytes # 0
                THEN messages' = <<messages[1], entry>> \o Tail(messages)
                ELSE messages' = <<entry>> \o messages]_vars

\* what the last publish serialized and delivered
Serialized == feed_last'.returned[1].serialized
Delivered == feed_last'.returned[1].delivered

C28_DeliveryDecision ==
    [][\A raw_message \in RawMessages :
          Publishing(raw_message) =>
              \A id \in DOMAIN subscribers :
                  LET sub == subscribers[id]
                      value == IF raw_message.tx_contents.value = "0x14" THEN 20 ELSE 5
                      to_abc == raw_message.tx_contents.to \in {"0xabc", "ABC"}
                  IN id \in Delivered <=>
                       /\ \/ raw_message.source # "BLOCKCHAIN_SOCKET"
                          \/ sub.options.include_from_blockchain \in {"True", "absent"}
                       /\ \/ sub.filters = NoFilter
                          \/ sub.filters = "value > 10 and to == 0xabc" /\ value > 10 /\ to_abc
                          \/ sub.filters = "value > 10 or from == 0xdef"]_vars

\* of two subscribers with the filter value > 10 and to == 0xabc, an item from
\* the blockchain node went only to the one that takes such items
C28_Witness ==
    /\ feed_last.op = "publish"
    /\ DOMAIN subscribers = SubscriptionIds
    /\ \A id \in SubscriptionIds : subscribers[id].filters = "value > 10 and to == 0xabc"
    /\ subscribers[1].options.include_from_blockchain = "absent"
    /\ subscribers[2].options.include_from_blockchain = "False"
    /\ feed_last.returned[1].delivered = {1}

\* the peer a pooled fileno is connected to
PeerAt(fileno) == conns[connection_pool[fileno]].ip_port
\* the connection at fileno was destroyed by the step
Destroyed(fileno) ==
    /\ fileno \notin DOMAIN connection_pool'
    /\ connection_pool[fileno] \in DOMAIN conns'
    /\ Truthy(BitAnd(conns'[connection_pool[fileno]].state, MARK_FOR_CLOSE))
    /\ fileno \in SeqToSet(disconnect_queue')
\* the connection at fileno is as it was
Kept(fileno) ==
    /\ fileno \in DOMAIN connection_pool'
    /\ connection_pool'[fileno] = connection_pool[fileno]
    /\ conns'[connection_pool[fileno]] = conns[connection_pool[fileno]]
    /\ fileno \notin SeqToSet(disconnect_queue')

\* C29: on_updated_peers(L) with a non-empty L leaves outbound_peers = L,
\* destroys every pooled connection to a previous outbound peer that is
\* neither a command-line peer nor in L, keeps the connections to all other
\* peers and enqueues one connect request for each peer of L that has no
\* pooled connection; with an empty L peers, pool and queues are unchanged.
C29_UpdatedPeers ==
    [][\A fixed_peers \in AllPeerLists, L \in AllPeerLists :
          UpdatingPeers(fixed_peers, L) =>
              IF L # <<>>
              THEN /\ outbound_peers' = L
                   /\ \A fileno \in DOMAIN connection_pool :
                         IF /\ PeerAt(fileno) \in SeqToSet(outbound_peers)
                            /\ PeerAt(fileno) \notin SeqToSet(fixed_peers)
                            /\ PeerAt(fileno) \notin SeqToSet(L)
                         THEN Destroyed(fileno)
                         ELSE Kept(fileno)
                   /\ DOMAIN connection_pool' \subseteq DOMAIN connection_pool
                   /\ connection_queue' =
                         connection_queue \o SelectSeq(L, LAMBDA p : ~PooledAt(p))
              ELSE /\ outbound_peers' = outbound_peers
                   /\ connection_pool' = connection_pool
                   /\ conns' = conns
                   /\ connection_queue' = connection_queue
                   /\ disconnect_queue' = disconnect_queue]_vars

\* of two pooled outbound peers the update destroyed the connection to the
\* one that left the list, kept the command-line peer and asked to connect
\* to a new peer
C29_Witness ==
    /\ node_last.added = "updated"
    /\ Len(node_last.destroy_conn_calls) = 1
    /\ Len(node_last.enqueued) = 1
    /\ Cardinality(DOMAIN connection_pool) = 1
    /\ \A fileno \in DOMAIN connection_pool :
          /\ conns[connection_pool[fileno]].ip_port \notin SeqToSet(outbound_peers)
          /\ conns[connection_pool[fileno]].ip_port \notin SeqToSet(node_last.enqueued)

\* C30: on_bytes_received appends the bytes to the input buffer of a pooled
\* connection that is not marked for close, behind the bytes that arrived
\* before, and destroys the connection in the same callback if handling them
\* marks it for close; for a connection already marked for close or a fileno
\* that is not pooled nothing is appended and destroy_conn is not called.
C30_BytesReceived ==
    [][\A fileno \in Filenos, bytes_received \in Chunks, marks \in BOOLEAN :
          Receiving(fileno, bytes_received, marks) =>
              IF fileno \in DOMAIN connection_pool /\ ~Marked(fileno)
              THEN LET conn == connection_pool[fileno]
                   IN /\ conn \in DOMAIN conns'
                      /\ conns'[conn].inputbuf = conns[conn].inputbuf \o bytes_received
                      /\ IF marks
                         THEN /\ node_last'.destroy_conn_calls = <<<<conn, FALSE>>>>
                              /\ Destroyed(fileno)
                         ELSE /\ node_last'.destroy_conn_calls = <<>>
                              /\ connection_pool' = connection_pool
                              /\ conns'[conn].state = conns[conn].state
              ELSE /\ conns' = conns
                   /\ connection_pool' = connection_pool
                   /\ disconnect_queue' = disconnect_queue
                   /\ node_last'.destroy_conn_calls = <<>>]_vars

\* two chunks arrived one after the other, and handling the second marked
\* the connection for close
C30_Witness ==
    /\ node_last.destroy_conn_calls # <<>>
    /\ disconnect_queue = <<5>>
    /\ \E conn \in DOMAIN conns : conns[conn].inputbuf = <<"b", "c", "a">>

\* what destroy_conn(conn) leaves of a node: conn is out of the pool, is
\* marked for close, and its fileno is in disconnect_queue
DestroyConnPost(n, id) ==
    /\ id \notin PooledConns(n)
    /\ Truthy(BitAnd(n.conns[id].state, MARK_FOR_CLOSE))
    /\ n.conns[id].fileno \in SeqToSet(n.disconnect_queue)

\* C31: after destroy_conn(conn, ...) the connection is absent from the
\* pool, has MARK_FOR_CLOSE set and its fileno is in disconnect_queue; and
\* over any sequence of the callbacks bytes received, connection closed,
\* timeout alarm, peer update and close, destroy_conn runs at most once per
\* connection: it runs on pooled connections only, a connection that left
\* the pool never returns to it, and every run enqueues the fileno once.
C31_DestroyConn ==
    [][LET calls == node_last'.destroy_conn_calls
           filenos == [i \in DOMAIN calls |-> conns[calls[i][1]].fileno]
       IN /\ \A id \in PooledConns(Node), retry_connection \in BOOLEAN :
                 DestroyConnPost(destroy_conn(Node, id, retry_connection), id)
          /\ \A i \in DOMAIN calls :
                 LET id == calls[i][1]
                 IN /\ id \in PooledConns(Node)
                    /\ \A j \in DOMAIN calls : j # i => calls[j][1] # id
                    /\ id \notin {connection_pool'[f] : f \in DOMAIN connection_pool'}
                    /\ conns[id].fileno \notin DOMAIN connection_pool'
                    /\ id \in DOMAIN conns' =>
                           Truthy(BitAnd(conns'[id].state, MARK_FOR_CLOSE))
          /\ calls # <<>> => disconnect_queue' = disconnect_queue \o filenos
          /\ \A id \in DOMAIN conns \cap DOMAIN conns' :
                 id \notin PooledConns(Node) =>
                     id \notin {connection_pool'[f] : f \in DOMAIN connection_pool'}]_vars

\* a callback has destroyed a connection whose timeout alarm is pending: the
\* connection is out of the pool and marked, and its fileno is queued
C31_Witness ==
    /\ node_last.destroy_conn_calls # <<>>
    /\ \E id \in DOMAIN conns :
          /\ id = node_last.destroy_conn_calls[1][1]
          /\ TimeoutAlarm(id) \in BagToSet(alarm_queue)
          /\ DestroyConnPost(Node, id)

\* C32: in every reachable state of the transaction service at most one
\* expire_old_assignments alarm is pending, tx_assign_alarm_scheduled is true
\* exactly when one is pending, and an alarm is pending whenever the
\* expiration queue is not empty.
C32_ExpiryAlarm ==
    /\ Len(alarms) <= 1
    /\ tx_assign_alarm_scheduled <=> Len(alarms) = 1
    /\ Len(tx_assignment_expire_queue) > 0 => Len(alarms) = 1

\* the alarm has expired a short id, found younger ones in the queue and
\* rescheduled itself at sid_expire_time
C32_Witness ==
    /\ last.op = "expire_old_assignments"
    /\ last.removed # {}
    /\ Len(tx_assignment_expire_queue) > 0
    /\ alarms = <<now + sid_expire_time>>
    /\ tx_assign_alarm_scheduled

\* the alarm has found the queue empty, cancelled itself and cleared the flag
C32_WitnessCancelled ==
    /\ last.op = "expire_old_assignments"
    /\ Len(tx_assignment_expire_queue) = 0
    /\ alarms = <<>>
    /\ ~tx_assign_alarm_scheduled

\* the entry as it was appended
Unstarted(entry) == [entry EXCEPT !.sent_bytes = 0]

\* C33: after any sequence of append_message and advance_bytes in which the
\* bytes advanced never exceed the bytes appended, the tracker holds a suffix
\* of the appended messages in append order, only the head entry may have
\* sent_bytes > 0 and its sent_bytes is less than its length, and the sum of
\* length - sent_bytes over the entries is the bytes appended minus the bytes
\* advanced; append_message with a length other than len(message.rawbytes())
\* raises ValueError and leaves the tracker unchanged.
C33_TrackerAccounting ==
    /\ Len(messages) <= Len(Appended)
    /\ [i \in DOMAIN messages |-> Unstarted(messages[i])]
           = SubSeq(Appended, Len(Appended) - Len(messages) + 1, Len(Appended))
    /\ \A i \in DOMAIN messages :
          /\ i > 1 => messages[i].sent_bytes = 0
          /\ messages[i].sent_bytes >= 0
          /\ messages[i].sent_bytes < messages[i].length
    /\ SumOfUnsent(messages) = SumOfUnsent(Appended) - Advanced
    /\ tracker_last.op = "append_message" =>
          /\ tracker_last.raised <=>
                 /\ tracker_last.message # NoMessage
                 /\ tracker_last.num_bytes # RawBytesLen(tracker_last.message)
          /\ tracker_last.raised => messages = tracker_last.before

\* three messages were appended, the first is sent and gone, the second is
\* partly sent and the third waits behind it
C33_Witness ==
    /\ Len(Appended) = 3
    /\ Len(messages) = 2
    /\ messages[1].sent_bytes = 1
    /\ messages[1].length = 2
    /\ Advanced >= 2

\* append_message has refused a length that is not the message's
C33_WitnessRaised ==
    /\ tracker_last.op = "append_message"
    /\ tracker_last.raised
    /\ messages # <<>>

\* the alarm queue has fired every alarm that is ready
AlarmsFired == \A i \in 1..Len(alarms) : alarms[i] > now

\* no short id outlives its last assignment by sid_expire_time plus one alarm
\* period: it is queued while it is in short_id_to_tx_hash, and the queue
\* holds no entry that old
ShortIdsExpire ==
    AlarmsFired =>
        /\ \A i \in 1..Len(tx_assignment_expire_queue) :
               now < tx_assignment_expire_queue[i].ts + sid_expire_time + sid_expire_time
        /\ \A sid \in DOMAIN short_id_to_tx_hash :
               sid \in ExpirationQueue_items(tx_assignment_expire_queue)

\* the hash h holds contents and every short id assigned to it has expired
AllShortIdsExpired(h) ==
    /\ h \in DOMAIN tx_hash_to_contents
    /\ h \in DOMAIN tx_hash_to_short_ids
    /\ \A sid \in tx_hash_to_short_ids[h] : sid \notin DOMAIN short_id_to_tx_hash

\* C34: if time keeps advancing and the alarm queue keeps firing ready
\* alarms, every short id assigned by assign_short_id is gone from
\* short_id_to_tx_hash and from the expiration queue no later than
\* sid_expire_time plus one alarm period after its last assignment, and the
\* contents of a hash whose every short id has expired are eventually
\* removed.
C34_ExpiryLiveness ==
    /\ []ShortIdsExpire
    /\ \A h \in Hashes : AllShortIdsExpired(h) ~> (h \notin DOMAIN tx_hash_to_contents)

\* C35: every pooled connection that becomes marked for close is eventually
\* removed from the pool with its fileno enqueued in disconnect_queue, without
\* an on_connection_closed notification from the socket layer.
C35_DisconnectLiveness ==
    \A fileno \in Filenos :
        (fileno \in DOMAIN connection_pool /\ Marked(fileno))
            ~> (fileno \notin DOMAIN connection_pool /\ fileno \in SeqToSet(disconnect_queue))

\* C36: when the same operations are applied in lock-step to a connection's
\* output buffer and to its message tracker, the tracker's entries correspond
\* one-to-one and in the same order to the buffer's message slices, the
\* tracker's unsent byte total is the buffer's length, and the assertion
\* len(self.messages) > 0 of advance_bytes never fails.
C36_TrackerMirrors ==
    /\ Len(messages) = Len(out_buf.output_msgs)
    /\ \A i \in DOMAIN messages :
          i \in DOMAIN out_buf.output_msgs =>
              messages[i].length = Len(out_buf.output_msgs[i])
    /\ SumOfUnsent(messages) = out_buf.length
    /\ ~tracker_last.raised

\* C37: each connection's MessageTracker keeps its own message queue:
\* append_message, prepend_message and advance_bytes on the tracker of one
\* connection leave the entries of every other connection's tracker
\* unchanged, and a newly created tracker starts empty.
C37_TrackerIsolation ==
    [][/\ \A connection \in 1..MaxConns :
             NewTracker(connection) =>
                 getattr_messages(trackers'[connection], messages') = <<>>
       /\ \A self \in DOMAIN trackers, other \in DOMAIN trackers :
             /\ other # self
             /\ tracker_last'.op \in {"append_message", "prepend_message", "advance_bytes"}
             /\ tracker_last'.self = self
             => getattr_messages(trackers'[other], messages')
                    = getattr_messages(trackers[other], messages)]_vars

----------------------------------------------------------------------------
Queries == {"has_transaction_short_id", "get_short_ids", "get_short_id"}

\* C38: no empty short-id sets. In every reachable state no key of
\* tx_hash_to_short_ids maps to an empty set; a query leaves the index as it
\* found it; get_short_id never raises and returns a member of the hash's
\* set when the hash is a key and NULL_TX_SID otherwise.
C38_NoEmptySets ==
    /\ \A h \in DOMAIN tx_hash_to_short_ids : tx_hash_to_short_ids[h] # {}
    /\ last.op \in Queries => tx_hash_to_short_ids = last.before
    /\ last.op = "get_short_id" =>
          /\ ~last.raised
          /\ Len(last.returned) = 1
          /\ IF last.hash \in DOMAIN tx_hash_to_short_ids
             THEN last.returned[1] \in tx_hash_to_short_ids[last.hash]
             ELSE last.returned[1] = NULL_TX_SID

\* get_short_id returned the larger of the two short ids of a hash
C38_Witness ==
    /\ last.op = "get_short_id"
    /\ last.hash \in DOMAIN tx_hash_to_short_ids
    /\ tx_hash_to_short_ids[last.hash] = Sids
    /\ last.returned = <<2>>

\* get_short_id returned NULL_TX_SID for a hash that has contents and no short
\* id, after a block was tracked
C38_WitnessUnknown ==
    /\ last.op = "get_short_id"
    /\ last.hash \notin DOMAIN tx_hash_to_short_ids
    /\ last.hash \in DOMAIN tx_hash_to_contents
    /\ short_ids_seen_in_block # <<>>
    /\ last.returned = <<NULL_TX_SID>>

----------------------------------------------------------------------------
\* C39: no keep-alive for closing connections. A _connection_timeout alarm that
\* fires for a connection whose state has MARK_FOR_CLOSE set registers no
\* send_ping alarm, also when the connection is ESTABLISHED as well and
\* schedule_pings_on_timeout is enabled.
C39_NoPingForClosing ==
    [][\A id \in DOMAIN conns :
          ( /\ node_last'.fired = TimeoutAlarm(id)
            /\ CopiesIn(TimeoutAlarm(id), alarm_queue) > 0
            /\ Truthy(BitAnd(conns[id].state, MARK_FOR_CLOSE)) )
          => CopiesIn(PingAlarm(id), node_last'.registered) = 0
      ]_vars

----------------------------------------------------------------------------
\* C40: short-circuit soundness of the feed. For every raw transaction and the
\* subscribers of any reachable state, if any_subscribers_want_item is false
\* then should_publish_message_to_subscriber is false for every subscriber:
\* the short-circuit of publish suppresses no item that a subscriber would
\* have received.
C40_ShortCircuitSound ==
    \A raw_message \in RawMessages :
        ~any_subscribers_want_item(subscribers, raw_message) =>
            \A id \in DOMAIN subscribers :
                ~should_publish_message_to_subscriber(subscribers[id], raw_message,
                                                      serialize(raw_message))

\* publish short-circuited while two subscribers without a filter were
\* subscribed, one with include_from_blockchain False and one with None
C40_Witness ==
    /\ feed_last.op = "publish"
    /\ feed_last.returned[1].serialized = <<>>
    /\ DOMAIN subscribers = SubscriptionIds
    /\ \A id \in SubscriptionIds : subscribers[id].filters = NoFilter
    /\ {subscribers[id].options.include_from_blockchain : id \in SubscriptionIds}
           = {"False", "None"}
    /\ \E raw_message \in RawMessages :
          ~any_subscribers_want_item(subscribers, raw_message)

============================================================================
